---- MODULE Spec2Model ----
(***************************************************************************)
(* A model of the MOS 6502 emulator core: the status register              *)
(* (src/src/status.rs), the bus (src/src/bus.rs), the opcode table         *)
(* (src/src/instructions/mod.rs) and the instruction handlers              *)
(* (src/src/instructions/*.rs).  The Cpu struct itself (src/cpu.rs: new,   *)
(* reset, push/pull, execute_instruction) is not among the source files;   *)
(* it is modelled from spec.md sections 4.4 to 4.6 and 6.                  *)
(*                                                                         *)
(* Bytes are naturals below 256 and words naturals below 65536; every      *)
(* wrapping operation of the source is written with its modulus.           *)
(***************************************************************************)
EXTENDS Naturals, Integers, Sequences, FiniteSets, TLC

VARIABLES cpu, hist, written, fuel, driver

vars == <<cpu, hist, written, fuel, driver>>

(***************************************************************************)
(* Bit arithmetic on u8 / u16 values.                                      *)
(***************************************************************************)
RECURSIVE BitAnd(_, _)
BitAnd(p, q) ==
    IF p = 0 \/ q = 0 THEN 0
    ELSE ((p % 2) * (q % 2)) + 2 * BitAnd(p \div 2, q \div 2)

RECURSIVE BitOr(_, _)
BitOr(p, q) ==
    IF p = 0 THEN q
    ELSE IF q = 0 THEN p
    ELSE (IF (p % 2) + (q % 2) > 0 THEN 1 ELSE 0) + 2 * BitOr(p \div 2, q \div 2)

RECURSIVE BitXor(_, _)
BitXor(p, q) ==
    IF p = 0 THEN q
    ELSE IF q = 0 THEN p
    ELSE (((p % 2) + (q % 2)) % 2) + 2 * BitXor(p \div 2, q \div 2)

\* !v on a u8
Not8(v) == 255 - v

\* 1 << n
Shl1(n) == 2 ^ n

Byte == 0 .. 255

(***************************************************************************)
(* status.rs: the Flag enum and the StatusRegister (a single u8).          *)
(***************************************************************************)
Carry == 0
Zero == 1
InterruptDisable == 2
DecimalMode == 3
Break == 4
Unused == 5
Overflow == 6
Negative == 7

\* 0b00110100
INITIAL_VALUE == 52

\* a register that starts with Break clear
StatusRegister_new_no_break == BitAnd(INITIAL_VALUE, 239)

StatusRegister_new == INITIAL_VALUE

set(flags, flag, value) ==
    IF value THEN BitOr(flags, Shl1(flag))
    ELSE BitAnd(flags, Not8(Shl1(flag)))

get(flags, flag) == BitAnd(flags, Shl1(flag)) # 0

to_byte(flags) == flags

\* from_byte that forces the Unused bit on
from_byte_forces_unused(flags, value) == BitOr(value, 32)

from_byte(flags, value) == value

update_zero_negative(flags, value) ==
    set(set(flags, Zero, value = 0), Negative, BitAnd(value, 128) # 0)

(***************************************************************************)
(* addressing.rs: operand byte count of each addressing mode.              *)
(***************************************************************************)
AddressingMode ==
    {"Implied", "Accumulator", "Immediate", "ZeroPage", "ZeroPageX",
     "ZeroPageY", "Absolute", "AbsoluteX", "AbsoluteY", "IndirectX",
     "IndirectY", "Indirect", "Relative"}

\* operand_bytes that counts one operand byte for Indirect
operand_bytes_short_indirect(mode) ==
    CASE mode \in {"Implied", "Accumulator"} -> 0
      [] mode \in {"Immediate", "ZeroPage", "ZeroPageX", "ZeroPageY",
                   "IndirectX", "IndirectY", "Indirect", "Relative"} -> 1
      [] mode \in {"Absolute", "AbsoluteX", "AbsoluteY"} -> 2

operand_bytes(mode) ==
    CASE mode \in {"Implied", "Accumulator"} -> 0
      [] mode \in {"Immediate", "ZeroPage", "ZeroPageX", "ZeroPageY",
                   "IndirectX", "IndirectY", "Relative"} -> 1
      [] mode \in {"Absolute", "AbsoluteX", "AbsoluteY", "Indirect"} -> 2

(***************************************************************************)
(* instructions/mod.rs: the opcode table.  TableAssignments lists the      *)
(* statements  table[index] = Opcode::new(code, mnemonic, mode, bytes,     *)
(* cycles, page_boundary_cycle)  in source order.                          *)
(***************************************************************************)
Opcode_new(code, mnemonic, mode, bytes, cycles, page_boundary_cycle) ==
    [code |-> code, mnemonic |-> mnemonic, mode |-> mode, bytes |-> bytes,
     cycles |-> cycles, page_boundary_cycle |-> page_boundary_cycle]

\* a fallback that takes an operand byte
illegal_immediate == Opcode_new(0, "???", "Immediate", 1, 2, FALSE)

\* the fallback with the one cycle the table's doc comment speaks of
illegal_one_cycle == Opcode_new(0, "???", "Implied", 1, 1, FALSE)

illegal == Opcode_new(0, "???", "Implied", 1, 2, FALSE)

TableAssignments ==
  <<
     <<169, 169, "LDA", "Immediate", 2, 2, FALSE>>,
     <<165, 165, "LDA", "ZeroPage", 2, 3, FALSE>>,
     <<181, 181, "LDA", "ZeroPageX", 2, 4, FALSE>>,
     <<173, 173, "LDA", "Absolute", 3, 4, FALSE>>,
     <<189, 189, "LDA", "AbsoluteX", 3, 4, TRUE>>,
     <<185, 185, "LDA", "AbsoluteY", 3, 4, TRUE>>,
     <<161, 161, "LDA", "IndirectX", 2, 6, FALSE>>,
     <<177, 177, "LDA", "IndirectY", 2, 5, TRUE>>,
     <<162, 162, "LDX", "Immediate", 2, 2, FALSE>>,
     <<166, 166, "LDX", "ZeroPage", 2, 3, FALSE>>,
     <<182, 182, "LDX", "ZeroPageY", 2, 4, FALSE>>,
     <<174, 174, "LDX", "Absolute", 3, 4, FALSE>>,
     <<190, 190, "LDX", "AbsoluteY", 3, 4, TRUE>>,
     <<160, 160, "LDY", "Immediate", 2, 2, FALSE>>,
     <<164, 164, "LDY", "ZeroPage", 2, 3, FALSE>>,
     <<180, 180, "LDY", "ZeroPageX", 2, 4, FALSE>>,
     <<172, 172, "LDY", "Absolute", 3, 4, FALSE>>,
     <<188, 188, "LDY", "AbsoluteX", 3, 4, TRUE>>,
     <<133, 133, "STA", "ZeroPage", 2, 3, FALSE>>,
     <<149, 149, "STA", "ZeroPageX", 2, 4, FALSE>>,
     <<141, 141, "STA", "Absolute", 3, 4, FALSE>>,
     <<157, 157, "STA", "AbsoluteX", 3, 5, FALSE>>,
     <<153, 153, "STA", "AbsoluteY", 3, 5, FALSE>>,
     <<129, 129, "STA", "IndirectX", 2, 6, FALSE>>,
     <<145, 145, "STA", "IndirectY", 2, 6, FALSE>>,
     <<134, 134, "STX", "ZeroPage", 2, 3, FALSE>>,
     <<150, 150, "STX", "ZeroPageY", 2, 4, FALSE>>,
     <<142, 142, "STX", "Absolute", 3, 4, FALSE>>,
     <<132, 132, "STY", "ZeroPage", 2, 3, FALSE>>,
     <<148, 148, "STY", "ZeroPageX", 2, 4, FALSE>>,
     <<140, 140, "STY", "Absolute", 3, 4, FALSE>>,
     <<170, 170, "TAX", "Implied", 1, 2, FALSE>>,
     <<168, 168, "TAY", "Implied", 1, 2, FALSE>>,
     <<138, 138, "TXA", "Implied", 1, 2, FALSE>>,
     <<152, 152, "TYA", "Implied", 1, 2, FALSE>>,
     <<186, 186, "TSX", "Implied", 1, 2, FALSE>>,
     <<154, 154, "TXS", "Implied", 1, 2, FALSE>>,
     <<72, 72, "PHA", "Implied", 1, 3, FALSE>>,
     <<104, 104, "PLA", "Implied", 1, 4, FALSE>>,
     <<8, 8, "PHP", "Implied", 1, 3, FALSE>>,
     <<40, 40, "PLP", "Implied", 1, 4, FALSE>>,
     <<105, 105, "ADC", "Immediate", 2, 2, FALSE>>,
     <<101, 101, "ADC", "ZeroPage", 2, 3, FALSE>>,
     <<117, 117, "ADC", "ZeroPageX", 2, 4, FALSE>>,
     <<109, 109, "ADC", "Absolute", 3, 4, FALSE>>,
     <<125, 125, "ADC", "AbsoluteX", 3, 4, TRUE>>,
     <<121, 121, "ADC", "AbsoluteY", 3, 4, TRUE>>,
     <<97, 97, "ADC", "IndirectX", 2, 6, FALSE>>,
     <<113, 113, "ADC", "IndirectY", 2, 5, TRUE>>,
     <<233, 233, "SBC", "Immediate", 2, 2, FALSE>>,
     <<229, 229, "SBC", "ZeroPage", 2, 3, FALSE>>,
     <<245, 245, "SBC", "ZeroPageX", 2, 4, FALSE>>,
     <<237, 237, "SBC", "Absolute", 3, 4, FALSE>>,
     <<253, 253, "SBC", "AbsoluteX", 3, 4, TRUE>>,
     <<249, 249, "SBC", "AbsoluteY", 3, 4, TRUE>>,
     <<225, 225, "SBC", "IndirectX", 2, 6, FALSE>>,
     <<241, 241, "SBC", "IndirectY", 2, 5, TRUE>>,
     <<201, 201, "CMP", "Immediate", 2, 2, FALSE>>,
     <<197, 197, "CMP", "ZeroPage", 2, 3, FALSE>>,
     <<213, 213, "CMP", "ZeroPageX", 2, 4, FALSE>>,
     <<205, 205, "CMP", "Absolute", 3, 4, FALSE>>,
     <<221, 221, "CMP", "AbsoluteX", 3, 4, TRUE>>,
     <<217, 217, "CMP", "AbsoluteY", 3, 4, TRUE>>,
     <<193, 193, "CMP", "IndirectX", 2, 6, FALSE>>,
     <<209, 209, "CMP", "IndirectY", 2, 5, TRUE>>,
     <<224, 224, "CPX", "Immediate", 2, 2, FALSE>>,
     <<228, 228, "CPX", "ZeroPage", 2, 3, FALSE>>,
     <<236, 236, "CPX", "Absolute", 3, 4, FALSE>>,
     <<192, 192, "CPY", "Immediate", 2, 2, FALSE>>,
     <<196, 196, "CPY", "ZeroPage", 2, 3, FALSE>>,
     <<204, 204, "CPY", "Absolute", 3, 4, FALSE>>,
     <<41, 41, "AND", "Immediate", 2, 2, FALSE>>,
     <<37, 37, "AND", "ZeroPage", 2, 3, FALSE>>,
     <<53, 53, "AND", "ZeroPageX", 2, 4, FALSE>>,
     <<45, 45, "AND", "Absolute", 3, 4, FALSE>>,
     <<61, 61, "AND", "AbsoluteX", 3, 4, TRUE>>,
     <<57, 57, "AND", "AbsoluteY", 3, 4, TRUE>>,
     <<33, 33, "AND", "IndirectX", 2, 6, FALSE>>,
     <<49, 49, "AND", "IndirectY", 2, 5, TRUE>>,
     <<9, 9, "ORA", "Immediate", 2, 2, FALSE>>,
     <<5, 5, "ORA", "ZeroPage", 2, 3, FALSE>>,
     <<21, 21, "ORA", "ZeroPageX", 2, 4, FALSE>>,
     <<13, 13, "ORA", "Absolute", 3, 4, FALSE>>,
     <<29, 29, "ORA", "AbsoluteX", 3, 4, TRUE>>,
     <<25, 25, "ORA", "AbsoluteY", 3, 4, TRUE>>,
     <<1, 1, "ORA", "IndirectX", 2, 6, FALSE>>,
     <<17, 17, "ORA", "IndirectY", 2, 5, TRUE>>,
     <<73, 73, "EOR", "Immediate", 2, 2, FALSE>>,
     <<69, 69, "EOR", "ZeroPage", 2, 3, FALSE>>,
     <<85, 85, "EOR", "ZeroPageX", 2, 4, FALSE>>,
     <<77, 77, "EOR", "Absolute", 3, 4, FALSE>>,
     <<93, 93, "EOR", "AbsoluteX", 3, 4, TRUE>>,
     <<89, 89, "EOR", "AbsoluteY", 3, 4, TRUE>>,
     <<65, 65, "EOR", "IndirectX", 2, 6, FALSE>>,
     <<81, 81, "EOR", "IndirectY", 2, 5, TRUE>>,
     <<36, 36, "BIT", "ZeroPage", 2, 3, FALSE>>,
     <<44, 44, "BIT", "Absolute", 3, 4, FALSE>>,
     <<10, 10, "ASL", "Accumulator", 1, 2, FALSE>>,
     <<6, 6, "ASL", "ZeroPage", 2, 5, FALSE>>,
     <<22, 22, "ASL", "ZeroPageX", 2, 6, FALSE>>,
     <<14, 14, "ASL", "Absolute", 3, 6, FALSE>>,
     <<30, 30, "ASL", "AbsoluteX", 3, 7, FALSE>>,
     <<74, 74, "LSR", "Accumulator", 1, 2, FALSE>>,
     <<70, 70, "LSR", "ZeroPage", 2, 5, FALSE>>,
     <<86, 86, "LSR", "ZeroPageX", 2, 6, FALSE>>,
     <<78, 78, "LSR", "Absolute", 3, 6, FALSE>>,
     <<94, 94, "LSR", "AbsoluteX", 3, 7, FALSE>>,
     <<42, 42, "ROL", "Accumulator", 1, 2, FALSE>>,
     <<38, 38, "ROL", "ZeroPage", 2, 5, FALSE>>,
     <<54, 54, "ROL", "ZeroPageX", 2, 6, FALSE>>,
     <<46, 46, "ROL", "Absolute", 3, 6, FALSE>>,
     <<62, 62, "ROL", "AbsoluteX", 3, 7, FALSE>>,
     <<106, 106, "ROR", "Accumulator", 1, 2, FALSE>>,
     <<102, 102, "ROR", "ZeroPage", 2, 5, FALSE>>,
     <<118, 118, "ROR", "ZeroPageX", 2, 6, FALSE>>,
     <<110, 110, "ROR", "Absolute", 3, 6, FALSE>>,
     <<126, 126, "ROR", "AbsoluteX", 3, 7, FALSE>>,
     <<230, 230, "INC", "ZeroPage", 2, 5, FALSE>>,
     <<246, 246, "INC", "ZeroPageX", 2, 6, FALSE>>,
     <<238, 238, "INC", "Absolute", 3, 6, FALSE>>,
     <<254, 254, "INC", "AbsoluteX", 3, 7, FALSE>>,
     <<198, 198, "DEC", "ZeroPage", 2, 5, FALSE>>,
     <<214, 214, "DEC", "ZeroPageX", 2, 6, FALSE>>,
     <<206, 206, "DEC", "Absolute", 3, 6, FALSE>>,
     <<222, 222, "DEC", "AbsoluteX", 3, 7, FALSE>>,
     <<232, 232, "INX", "Implied", 1, 2, FALSE>>,
     <<202, 202, "DEX", "Implied", 1, 2, FALSE>>,
     <<200, 200, "INY", "Implied", 1, 2, FALSE>>,
     <<136, 136, "DEY", "Implied", 1, 2, FALSE>>,
     <<76, 76, "JMP", "Absolute", 3, 3, FALSE>>,
     <<108, 108, "JMP", "Indirect", 3, 5, FALSE>>,
     <<32, 32, "JSR", "Absolute", 3, 6, FALSE>>,
     <<96, 96, "RTS", "Implied", 1, 6, FALSE>>,
     <<0, 0, "BRK", "Implied", 1, 7, FALSE>>,
     <<64, 64, "RTI", "Implied", 1, 6, FALSE>>,
     <<144, 144, "BCC", "Relative", 2, 2, TRUE>>,
     <<176, 176, "BCS", "Relative", 2, 2, TRUE>>,
     <<240, 240, "BEQ", "Relative", 2, 2, TRUE>>,
     <<208, 208, "BNE", "Relative", 2, 2, TRUE>>,
     <<48, 48, "BMI", "Relative", 2, 2, TRUE>>,
     <<16, 16, "BPL", "Relative", 2, 2, TRUE>>,
     <<80, 80, "BVC", "Relative", 2, 2, TRUE>>,
     <<112, 112, "BVS", "Relative", 2, 2, TRUE>>,
     <<24, 24, "CLC", "Implied", 1, 2, FALSE>>,
     <<56, 56, "SEC", "Implied", 1, 2, FALSE>>,
     <<88, 88, "CLI", "Implied", 1, 2, FALSE>>,
     <<120, 120, "SEI", "Implied", 1, 2, FALSE>>,
     <<216, 216, "CLD", "Implied", 1, 2, FALSE>>,
     <<248, 248, "SED", "Implied", 1, 2, FALSE>>,
     <<184, 184, "CLV", "Implied", 1, 2, FALSE>>,
     <<234, 234, "NOP", "Implied", 1, 2, FALSE>>
  >>

\* the assignments table[index] = .. made for one index, in source order
assignments_to(index) ==
    {i \in 1 .. Len(TableAssignments) : TableAssignments[i][1] = index}

\* rows whose penalty flag follows from the mode alone
assigned_flag_by_mode(row) ==
    Opcode_new(row[2], row[3], row[4], row[5], row[6],
               row[4] \in {"AbsoluteX", "AbsoluteY", "IndirectY", "Relative"})

\* the Opcode a row of the table constructs
assigned(row) == Opcode_new(row[2], row[3], row[4], row[5], row[6], row[7])

\* the entry an index holds after its assignments: the last one, or illegal
table_entry(hits) ==
    IF hits = {} THEN illegal
    ELSE assigned(TableAssignments[CHOOSE i \in hits : \A j \in hits : j <= i])

create_opcode_table ==
    [op \in 0 .. 255 |-> table_entry(assignments_to(op))]

OPCODES == create_opcode_table

get_opcode(code) == OPCODES[code]

(***************************************************************************)
(* The Cpu value: the registers, the owned bus (SimpleBus.memory), and     *)
(* log, the bus accesses of the call in progress, in program order.        *)
(*                                                                         *)
(* SimpleBus.memory is [u8; 65536], zero-filled by SimpleBus::new().  The  *)
(* model keeps only the cells that were ever set: by the harness before    *)
(* the CPU runs (load / write, see Loaded) or by the CPU.  A cell that is  *)
(* not in the domain holds 0.                                              *)
(***************************************************************************)
SimpleBus_new == << >>

SimpleBus_read(memory, address) ==
    IF address \in DOMAIN memory THEN memory[address] ELSE 0

SimpleBus_write(memory, address, value) ==
    (address :> value) @@ memory

\* self.bus.read(address): the value read, and the Cpu with the access logged
bus_read(m, address) ==
    [cpu |-> [m EXCEPT !.log = Append(@, <<"read", address>>)],
     val |-> SimpleBus_read(m.memory, address)]

\* self.bus.write(address, value)
bus_write(m, address, value) ==
    [m EXCEPT !.memory = SimpleBus_write(@, address, value),
              !.log = Append(@, <<"write", address>>)]

\* read_word that takes the high byte from the page of the low byte
read_word_page_wrap(m, address) ==
    LET low == bus_read(m, address)
        high == bus_read(low.cpu, BitOr(BitAnd(address, 65280), BitAnd(address + 1, 255)))
    IN  [cpu |-> high.cpu, val |-> BitOr(high.val * 256, low.val)]

\* Bus::read_word: low byte first, the high byte at address.wrapping_add(1)
read_word(m, address) ==
    LET low == bus_read(m, address)
        high == bus_read(low.cpu, (address + 1) % 65536)
    IN  [cpu |-> high.cpu, val |-> BitOr(high.val * 256, low.val)]

(***************************************************************************)
(* Cpu: construction, reset and the stack primitives (spec.md 4.5, 4.6).   *)
(***************************************************************************)
STACK_BASE == 256

RESET_VECTOR == 65532

IRQ_VECTOR == 65534

RESET_CYCLES == 7

RESET_SP == 253

Cpu_new(memory) ==
    [a |-> 0, x |-> 0, y |-> 0, sp |-> 0, pc |-> 0,
     status |-> StatusRegister_new, cycles |-> RESET_CYCLES,
     memory |-> memory, log |-> << >>]

reset(m) ==
    LET r == read_word([m EXCEPT !.log = << >>], RESET_VECTOR)
    IN  [r.cpu EXCEPT !.pc = r.val, !.sp = RESET_SP,
                      !.status = StatusRegister_new,
                      !.a = 0, !.x = 0, !.y = 0, !.cycles = RESET_CYCLES]

\* push_byte that moves SP before it writes
push_byte_predecrement(m, value) ==
    LET m1 == [m EXCEPT !.sp = (m.sp + 255) % 256]
    IN  bus_write(m1, STACK_BASE + m1.sp, value)

push_byte(m, value) ==
    LET m1 == bus_write(m, STACK_BASE + m.sp, value)
    IN  [m1 EXCEPT !.sp = (m.sp + 255) % 256]

pull_byte(m) ==
    LET m1 == [m EXCEPT !.sp = (m.sp + 1) % 256]
    IN  bus_read(m1, STACK_BASE + m1.sp)

push_word(m, value) ==
    push_byte(push_byte(m, value \div 256), value % 256)

pull_word(m) ==
    LET low == pull_byte(m)
        high == pull_byte(low.cpu)
    IN  [cpu |-> high.cpu, val |-> BitOr(high.val * 256, low.val)]

(***************************************************************************)
(* instructions/stack.rs                                                   *)
(***************************************************************************)
\* pha that pushes X
pha_pushes_x(m) == push_byte(m, m.x)

pha(m) == push_byte(m, m.a)

\* pla that leaves the flags alone
pla_no_flags(m) ==
    LET r == pull_byte(m)
    IN  [r.cpu EXCEPT !.a = r.val]

pla(m) ==
    LET r == pull_byte(m)
    IN  [r.cpu EXCEPT !.a = r.val,
                      !.status = update_zero_negative(@, r.val)]

\* php that pushes P as it is
php_no_break(m) == push_byte(m, to_byte(m.status))

php(m) ==
    LET status == BitOr(to_byte(m.status), 16)
    IN  push_byte(m, status)

\* plp without the forced Unused bit
plp_no_unused(m) ==
    LET r == pull_byte(m)
    IN  [r.cpu EXCEPT !.status = from_byte(@, BitAnd(r.val, 239))]

\* plp that keeps the Break bit the register holds
plp_keeps_break(m) ==
    LET r == pull_byte(m)
    IN  [r.cpu EXCEPT !.status =
            from_byte(@, BitOr(BitOr(BitAnd(r.val, 239), BitAnd(to_byte(@), 16)), 32))]

\* plp that installs the pulled byte as it is
plp_verbatim(m) ==
    LET r == pull_byte(m)
    IN  [r.cpu EXCEPT !.status = from_byte(@, r.val)]

plp(m) ==
    LET r == pull_byte(m)
    IN  [r.cpu EXCEPT !.status = from_byte(@, BitOr(BitAnd(r.val, 239), 32))]

(***************************************************************************)
(* instructions/flow_control.rs                                            *)
(***************************************************************************)
jmp(m, address) == [m EXCEPT !.pc = address]

\* jsr that pushes the address of the next instruction
jsr_pushes_next(m, address) ==
    [push_word(m, m.pc) EXCEPT !.pc = address]

jsr(m, address) ==
    LET return_addr == (m.pc + 65535) % 65536
    IN  [push_word(m, return_addr) EXCEPT !.pc = address]

\* rts that does not step past the pulled address
rts_no_increment(m) ==
    LET r == pull_word(m)
    IN  [r.cpu EXCEPT !.pc = r.val]

rts(m) ==
    LET r == pull_word(m)
    IN  [r.cpu EXCEPT !.pc = (r.val + 1) % 65536]

\* brk that pushes PC, not PC + 1
brk_pushes_pc(m) ==
    LET return_addr == m.pc
        m1 == push_word(m, return_addr)
        status == BitOr(to_byte(m1.status), 16)
        m2 == push_byte(m1, status)
        m3 == [m2 EXCEPT !.status = set(@, InterruptDisable, TRUE)]
        r == read_word(m3, IRQ_VECTOR)
    IN  [r.cpu EXCEPT !.pc = r.val]

\* brk that sets InterruptDisable before it pushes the status
brk_sets_i_first(m) ==
    LET return_addr == (m.pc + 1) % 65536
        m1 == push_word(m, return_addr)
        m2 == [m1 EXCEPT !.status = set(@, InterruptDisable, TRUE)]
        status == BitOr(to_byte(m2.status), 16)
        m3 == push_byte(m2, status)
        r == read_word(m3, IRQ_VECTOR)
    IN  [r.cpu EXCEPT !.pc = r.val]

brk(m) ==
    LET return_addr == (m.pc + 1) % 65536
        m1 == push_word(m, return_addr)
        status == BitOr(to_byte(m1.status), 16)
        m2 == push_byte(m1, status)
        m3 == [m2 EXCEPT !.status = set(@, InterruptDisable, TRUE)]
        r == read_word(m3, IRQ_VECTOR)
    IN  [r.cpu EXCEPT !.pc = r.val]

\* rti that steps past the pulled address, as rts does
rti_plus_one(m) ==
    LET r == pull_byte(m)
        m1 == [r.cpu EXCEPT !.status = from_byte(@, BitOr(BitAnd(r.val, 239), 32))]
        w == pull_word(m1)
    IN  [w.cpu EXCEPT !.pc = (w.val + 1) % 65536]

\* rti that keeps the Break bit the register holds
rti_keeps_break(m) ==
    LET r == pull_byte(m)
        kept == BitAnd(to_byte(r.cpu.status), 16)
        m1 == [r.cpu EXCEPT !.status =
                  from_byte(@, BitOr(BitOr(BitAnd(r.val, 239), kept), 32))]
        w == pull_word(m1)
    IN  [w.cpu EXCEPT !.pc = w.val]

rti(m) ==
    LET r == pull_byte(m)
        m1 == [r.cpu EXCEPT !.status = from_byte(@, BitOr(BitAnd(r.val, 239), 32))]
        w == pull_word(m1)
    IN  [w.cpu EXCEPT !.pc = w.val]

\* branch that adds the offset byte without sign extension
branch_unsigned(m, condition, offset) ==
    IF condition
    THEN LET pc == (m.pc + offset) % 65536
         IN  [cpu |-> [m EXCEPT !.pc = pc],
              val |-> IF BitAnd(m.pc, 65280) # BitAnd(pc, 65280) THEN 2 ELSE 1]
    ELSE [cpu |-> m, val |-> 0]

\* Branch helper: [cpu, val], val being the additional cycles.
\* offset as i8 as u16 is the offset sign-extended to 16 bits.
branch(m, condition, offset) ==
    IF condition
    THEN LET signed_offset == IF offset >= 128 THEN 65280 + offset ELSE offset
             pc == (m.pc + signed_offset) % 65536
         IN  [cpu |-> [m EXCEPT !.pc = pc],
              val |-> IF BitAnd(m.pc, 65280) # BitAnd(pc, 65280) THEN 2 ELSE 1]
    ELSE [cpu |-> m, val |-> 0]

bcc(m, offset) == branch(m, ~get(m.status, Carry), offset)

bcs(m, offset) == branch(m, get(m.status, Carry), offset)

beq(m, offset) == branch(m, get(m.status, Zero), offset)

bne(m, offset) == branch(m, ~get(m.status, Zero), offset)

bmi(m, offset) == branch(m, get(m.status, Negative), offset)

bpl(m, offset) == branch(m, ~get(m.status, Negative), offset)

bvc(m, offset) == branch(m, ~get(m.status, Overflow), offset)

bvs(m, offset) == branch(m, get(m.status, Overflow), offset)

(***************************************************************************)
(* instructions/flags.rs                                                   *)
(***************************************************************************)
clc(m) == [m EXCEPT !.status = set(@, Carry, FALSE)]

sec(m) == [m EXCEPT !.status = set(@, Carry, TRUE)]

cli(m) == [m EXCEPT !.status = set(@, InterruptDisable, FALSE)]

\* sei that inverts the flag
sei_toggles(m) == [m EXCEPT !.status = BitXor(@, Shl1(InterruptDisable))]

sei(m) == [m EXCEPT !.status = set(@, InterruptDisable, TRUE)]

cld(m) == [m EXCEPT !.status = set(@, DecimalMode, FALSE)]

sed(m) == [m EXCEPT !.status = set(@, DecimalMode, TRUE)]

clv(m) == [m EXCEPT !.status = set(@, Overflow, FALSE)]

(***************************************************************************)
(* instructions/load_store.rs, instructions/transfer.rs                    *)
(***************************************************************************)
lda(m, value) ==
    [m EXCEPT !.a = value, !.status = update_zero_negative(@, value)]

ldx(m, value) ==
    [m EXCEPT !.x = value, !.status = update_zero_negative(@, value)]

ldy(m, value) ==
    [m EXCEPT !.y = value, !.status = update_zero_negative(@, value)]

\* STA, STX, STY return the byte to store
sta(m) == m.a

stx(m) == m.x

sty(m) == m.y

tax(m) == [m EXCEPT !.x = m.a, !.status = update_zero_negative(@, m.a)]

tay(m) == [m EXCEPT !.y = m.a, !.status = update_zero_negative(@, m.a)]

txa(m) == [m EXCEPT !.a = m.x, !.status = update_zero_negative(@, m.x)]

tya(m) == [m EXCEPT !.a = m.y, !.status = update_zero_negative(@, m.y)]

tsx(m) == [m EXCEPT !.x = m.sp, !.status = update_zero_negative(@, m.sp)]

\* txs that updates Z and N like the other transfers
txs_updates_flags(m) == [m EXCEPT !.sp = m.x, !.status = update_zero_negative(@, m.x)]

txs(m) == [m EXCEPT !.sp = m.x]

(***************************************************************************)
(* instructions/logic.rs                                                   *)
(***************************************************************************)
and(m, value) ==
    [m EXCEPT !.a = BitAnd(m.a, value),
              !.status = update_zero_negative(@, BitAnd(m.a, value))]

ora(m, value) ==
    [m EXCEPT !.a = BitOr(m.a, value),
              !.status = update_zero_negative(@, BitOr(m.a, value))]

eor(m, value) ==
    [m EXCEPT !.a = BitXor(m.a, value),
              !.status = update_zero_negative(@, BitXor(m.a, value))]

\* bit that takes N and V from A AND M instead of M
bit_flags_from_result(m, value) ==
    LET result == BitAnd(m.a, value)
    IN  [m EXCEPT !.status =
            set(set(set(@, Zero, result = 0),
                    Negative, BitAnd(result, 128) # 0),
                Overflow, BitAnd(result, 64) # 0)]

bit(m, value) ==
    LET result == BitAnd(m.a, value)
    IN  [m EXCEPT !.status =
            set(set(set(@, Zero, result = 0),
                    Negative, BitAnd(value, 128) # 0),
                Overflow, BitAnd(value, 64) # 0)]

(***************************************************************************)
(* instructions/inc_dec.rs.  The memory forms return the new byte:         *)
(* [cpu, val].                                                             *)
(***************************************************************************)
inc_mem(m, value) ==
    [cpu |-> [m EXCEPT !.status = update_zero_negative(@, (value + 1) % 256)],
     val |-> (value + 1) % 256]

dec_mem(m, value) ==
    [cpu |-> [m EXCEPT !.status = update_zero_negative(@, (value + 255) % 256)],
     val |-> (value + 255) % 256]

inx(m) ==
    [m EXCEPT !.x = (m.x + 1) % 256,
              !.status = update_zero_negative(@, (m.x + 1) % 256)]

dex(m) ==
    [m EXCEPT !.x = (m.x + 255) % 256,
              !.status = update_zero_negative(@, (m.x + 255) % 256)]

iny(m) ==
    [m EXCEPT !.y = (m.y + 1) % 256,
              !.status = update_zero_negative(@, (m.y + 1) % 256)]

dey(m) ==
    [m EXCEPT !.y = (m.y + 255) % 256,
              !.status = update_zero_negative(@, (m.y + 255) % 256)]

(***************************************************************************)
(* instructions/arithmetic.rs                                              *)
(***************************************************************************)
\* adc that adds no carry-in
adc_ignores_carry(m, value) ==
    LET result == m.a + value
        a == result % 256
        overflow == BitAnd(BitAnd(BitXor(m.a, a), BitXor(value, a)), 128) # 0
    IN  [m EXCEPT !.a = a,
                  !.status = update_zero_negative(
                                 set(set(@, Carry, result > 255), Overflow, overflow), a)]

\* adc that adjusts the sum to packed decimal when DecimalMode is set
adc_decimal(m, value) ==
    LET carry == IF get(m.status, Carry) THEN 1 ELSE 0
        binary == m.a + value + carry
        result == IF get(m.status, DecimalMode) /\ (m.a % 16) + (value % 16) + carry > 9
                  THEN binary + 6 ELSE binary
        a == result % 256
        overflow == BitAnd(BitAnd(BitXor(m.a, a), BitXor(value, a)), 128) # 0
    IN  [m EXCEPT !.a = a,
                  !.status = update_zero_negative(
                                 set(set(@, Carry, result > 255), Overflow, overflow), a)]

adc(m, value) ==
    LET carry == IF get(m.status, Carry) THEN 1 ELSE 0
        result == m.a + value + carry
        a == result % 256
        overflow == BitAnd(BitAnd(BitXor(m.a, a), BitXor(value, a)), 128) # 0
    IN  [m EXCEPT !.a = a,
                  !.status = update_zero_negative(
                                 set(set(@, Carry, result > 255), Overflow, overflow), a)]

\* sbc that adds the two's complement of the operand
sbc_negated(m, value) == adc(m, (256 - value) % 256)

sbc(m, value) == adc(m, Not8(value))

\* compare that sets Carry only when the register is greater
compare_strict(m, register, value) ==
    LET result == (register + 256 - value) % 256
    IN  [m EXCEPT !.status =
            update_zero_negative(set(@, Carry, register > value), result)]

\* compare whose Carry is a borrow flag: set when the register is smaller
compare_borrow(m, register, value) ==
    LET result == (register + 256 - value) % 256
    IN  [m EXCEPT !.status =
            update_zero_negative(set(@, Carry, register < value), result)]

compare(m, register, value) ==
    LET result == (register + 256 - value) % 256
    IN  [m EXCEPT !.status =
            update_zero_negative(set(@, Carry, register >= value), result)]

cmp(m, value) == compare(m, m.a, value)

cpx(m, value) == compare(m, m.x, value)

cpy(m, value) == compare(m, m.y, value)

(***************************************************************************)
(* instructions/shift_rotate.rs.  The memory forms return the new byte:    *)
(* [cpu, val].                                                             *)
(***************************************************************************)
asl_acc(m) ==
    LET carry == BitAnd(m.a, 128) # 0
        a == (m.a * 2) % 256
    IN  [m EXCEPT !.a = a,
                  !.status = update_zero_negative(set(@, Carry, carry), a)]

\* asl_mem that takes Z and N from the accumulator
asl_mem_flags_from_a(m, value) ==
    LET carry == BitAnd(value, 128) # 0
        result == (value * 2) % 256
    IN  [cpu |-> [m EXCEPT !.status =
                     update_zero_negative(set(@, Carry, carry), m.a)],
         val |-> result]

asl_mem(m, value) ==
    LET carry == BitAnd(value, 128) # 0
        result == (value * 2) % 256
    IN  [cpu |-> [m EXCEPT !.status =
                     update_zero_negative(set(@, Carry, carry), result)],
         val |-> result]

\* lsr_acc that keeps bit 7 (an arithmetic shift)
lsr_acc_arithmetic(m) ==
    LET carry == BitAnd(m.a, 1) # 0
        a == BitOr(m.a \div 2, BitAnd(m.a, 128))
    IN  [m EXCEPT !.a = a,
                  !.status = update_zero_negative(set(@, Carry, carry), a)]

lsr_acc(m) ==
    LET carry == BitAnd(m.a, 1) # 0
        a == m.a \div 2
    IN  [m EXCEPT !.a = a,
                  !.status = update_zero_negative(set(@, Carry, carry), a)]

lsr_mem(m, value) ==
    LET carry == BitAnd(value, 1) # 0
        result == value \div 2
    IN  [cpu |-> [m EXCEPT !.status =
                     update_zero_negative(set(@, Carry, carry), result)],
         val |-> result]

rol_acc(m) ==
    LET old_carry == IF get(m.status, Carry) THEN 1 ELSE 0
        new_carry == BitAnd(m.a, 128) # 0
        a == BitOr((m.a * 2) % 256, old_carry)
    IN  [m EXCEPT !.a = a,
                  !.status = update_zero_negative(set(@, Carry, new_carry), a)]

rol_mem(m, value) ==
    LET old_carry == IF get(m.status, Carry) THEN 1 ELSE 0
        new_carry == BitAnd(value, 128) # 0
        result == BitOr((value * 2) % 256, old_carry)
    IN  [cpu |-> [m EXCEPT !.status =
                     update_zero_negative(set(@, Carry, new_carry), result)],
         val |-> result]

\* ror_acc that shifts a 0 into bit 7
ror_acc_no_carry_in(m) ==
    LET new_carry == BitAnd(m.a, 1) # 0
        a == m.a \div 2
    IN  [m EXCEPT !.a = a,
                  !.status = update_zero_negative(set(@, Carry, new_carry), a)]

ror_acc(m) ==
    LET old_carry == IF get(m.status, Carry) THEN 128 ELSE 0
        new_carry == BitAnd(m.a, 1) # 0
        a == BitOr(m.a \div 2, old_carry)
    IN  [m EXCEPT !.a = a,
                  !.status = update_zero_negative(set(@, Carry, new_carry), a)]

ror_mem(m, value) ==
    LET old_carry == IF get(m.status, Carry) THEN 128 ELSE 0
        new_carry == BitAnd(value, 1) # 0
        result == BitOr(value \div 2, old_carry)
    IN  [cpu |-> [m EXCEPT !.status =
                     update_zero_negative(set(@, Carry, new_carry), result)],
         val |-> result]

(***************************************************************************)
(* Cpu::execute_instruction (spec.md 4.4): read the opcode byte at PC and  *)
(* advance PC, look the entry up, fetch the operand under its mode         *)
(* advancing PC, dispatch to the handler, load the cycle budget.           *)
(***************************************************************************)
\* Indirect without the page-wrap bug: the little-endian word at the pointer
indirect_target_no_bug(m, ptr) == read_word(m, ptr)

\* Indirect, spec.md 4.2: the high byte comes from the pointer's own page,
\* bus[(ptr & 0xFF00) | ((ptr + 1) & 0x00FF)]; low.val is bus[ptr]
indirect_high(ptr, low) ==
    LET high == bus_read(low.cpu, BitOr(BitAnd(ptr, 65280), BitAnd(ptr + 1, 255)))
    IN  [cpu |-> high.cpu, val |-> BitOr(high.val * 256, low.val)]

indirect_target(m, ptr) == indirect_high(ptr, bus_read(m, ptr))

\* what the operand fetch yields: the Cpu past the operand, the immediate
\* value or the effective address, and whether indexing crossed a page
Operand(m, value, address, mode, crossed) ==
    [cpu |-> m, value |-> value, address |-> address, mode |-> mode,
     crossed |-> crossed]

\* PC moved past n operand bytes
advance(m, n) == [m EXCEPT !.pc = (@ + n) % 65536]

\* Immediate, Relative: r.val is the byte read at pc
immediate_operand(r, pc, mode) == Operand(advance(r.cpu, 1), r.val, pc, mode, FALSE)

\* ZeroPage, ZeroPageX, ZeroPageY: (operand + index) mod 256
zero_page_operand(r, index, mode) ==
    Operand(advance(r.cpu, 1), 0, (r.val + index) % 256, mode, FALSE)

\* Absolute, AbsoluteX, AbsoluteY: abs + index with 16-bit wrap; the penalty
\* applies if (abs & 0xFF00) != (addr & 0xFF00)
absolute_operand(r, index, mode) ==
    Operand(advance(r.cpu, 2), 0, (r.val + index) % 65536, mode,
            BitAnd(r.val, 65280) # BitAnd((r.val + index) % 65536, 65280))

\* bus[ptr] | (bus[(ptr + 1) mod 256] << 8): the high byte stays in page zero
zero_page_high(ptr, low) ==
    LET high == bus_read(low.cpu, (ptr + 1) % 256)
    IN  [cpu |-> high.cpu, val |-> BitOr(high.val * 256, low.val)]

zero_page_word(m, ptr) == zero_page_high(ptr, bus_read(m, ptr))

\* IndirectX, IndirectY: t.val is the word read through the zero-page pointer
indexed_indirect_operand(t, index, mode) ==
    Operand(advance(t.cpu, 1), 0, (t.val + index) % 65536, mode,
            BitAnd(t.val, 65280) # BitAnd((t.val + index) % 65536, 65280))

indirect_x_operand(r, x) ==
    indexed_indirect_operand(zero_page_word(r.cpu, (r.val + x) % 256), 0, "IndirectX")

indirect_y_operand(r, y) ==
    indexed_indirect_operand(zero_page_word(r.cpu, r.val), y, "IndirectY")

\* Indirect: t.val is the word read through the 16-bit pointer
indirect_operand(t) == Operand(advance(t.cpu, 2), 0, t.val, "Indirect", FALSE)

indirect_pointer(p) == indirect_operand(indirect_target(p.cpu, p.val))

\* the operand under the entry's mode
fetch_operand(m, mode) ==
    CASE mode \in {"Implied", "Accumulator"} -> Operand(m, 0, 0, mode, FALSE)
      [] mode \in {"Immediate", "Relative"} ->
            immediate_operand(bus_read(m, m.pc), m.pc, mode)
      [] mode = "ZeroPage" -> zero_page_operand(bus_read(m, m.pc), 0, mode)
      [] mode = "ZeroPageX" -> zero_page_operand(bus_read(m, m.pc), m.x, mode)
      [] mode = "ZeroPageY" -> zero_page_operand(bus_read(m, m.pc), m.y, mode)
      [] mode = "Absolute" -> absolute_operand(read_word(m, m.pc), 0, mode)
      [] mode = "AbsoluteX" -> absolute_operand(read_word(m, m.pc), m.x, mode)
      [] mode = "AbsoluteY" -> absolute_operand(read_word(m, m.pc), m.y, mode)
      [] mode = "IndirectX" -> indirect_x_operand(bus_read(m, m.pc), m.x)
      [] mode = "IndirectY" -> indirect_y_operand(bus_read(m, m.pc), m.y)
      [] mode = "Indirect" -> indirect_pointer(read_word(m, m.pc))

\* the value a reading instruction works on: the immediate byte, or the byte
\* read at the effective address
load(o) ==
    IF o.mode = "Immediate" THEN [cpu |-> o.cpu, val |-> o.value]
    ELSE bus_read(o.cpu, o.address)

\* read-modify-write: the current byte at the effective address
operand_read(o) == bus_read(o.cpu, o.address)

\* read-modify-write: the new byte r.val written back to the effective address
write_back(o, r) == bus_write(r.cpu, o.address, r.val)

\* the additional cycles r.val a branch returned go into the cycle budget
branch_penalty(r) == [r.cpu EXCEPT !.cycles = @ + r.val]

\* the handlers applied to a byte r.val read from the bus
lda_operand(r) == lda(r.cpu, r.val)

ldx_operand(r) == ldx(r.cpu, r.val)

ldy_operand(r) == ldy(r.cpu, r.val)

adc_operand(r) == adc(r.cpu, r.val)

sbc_operand(r) == sbc(r.cpu, r.val)

cmp_operand(r) == cmp(r.cpu, r.val)

cpx_operand(r) == cpx(r.cpu, r.val)

cpy_operand(r) == cpy(r.cpu, r.val)

and_operand(r) == and(r.cpu, r.val)

ora_operand(r) == ora(r.cpu, r.val)

eor_operand(r) == eor(r.cpu, r.val)

bit_operand(r) == bit(r.cpu, r.val)

asl_operand(r) == asl_mem(r.cpu, r.val)

lsr_operand(r) == lsr_mem(r.cpu, r.val)

rol_operand(r) == rol_mem(r.cpu, r.val)

ror_operand(r) == ror_mem(r.cpu, r.val)

inc_operand(r) == inc_mem(r.cpu, r.val)

dec_operand(r) == dec_mem(r.cpu, r.val)

\* a store: the register byte written to the effective address
store(o, value) == bus_write(o.cpu, o.address, value)

dispatch(m, mnemonic, o) ==
    CASE mnemonic = "PHA" -> pha(m)
      [] mnemonic = "PLA" -> pla(m)
      [] mnemonic = "PHP" -> php(m)
      [] mnemonic = "PLP" -> plp(m)
      [] mnemonic = "JMP" -> jmp(m, o.address)
      [] mnemonic = "JSR" -> jsr(m, o.address)
      [] mnemonic = "RTS" -> rts(m)
      [] mnemonic = "BRK" -> brk(m)
      [] mnemonic = "RTI" -> rti(m)
      [] mnemonic = "CLC" -> clc(m)
      [] mnemonic = "SEC" -> sec(m)
      [] mnemonic = "CLI" -> cli(m)
      [] mnemonic = "SEI" -> sei(m)
      [] mnemonic = "CLD" -> cld(m)
      [] mnemonic = "SED" -> sed(m)
      [] mnemonic = "CLV" -> clv(m)
      [] mnemonic = "LDA" -> lda_operand(load(o))
      [] mnemonic = "LDX" -> ldx_operand(load(o))
      [] mnemonic = "LDY" -> ldy_operand(load(o))
      [] mnemonic = "ADC" -> adc_operand(load(o))
      [] mnemonic = "SBC" -> sbc_operand(load(o))
      [] mnemonic = "CMP" -> cmp_operand(load(o))
      [] mnemonic = "CPX" -> cpx_operand(load(o))
      [] mnemonic = "CPY" -> cpy_operand(load(o))
      [] mnemonic = "AND" -> and_operand(load(o))
      [] mnemonic = "ORA" -> ora_operand(load(o))
      [] mnemonic = "EOR" -> eor_operand(load(o))
      [] mnemonic = "BIT" -> bit_operand(load(o))
      [] mnemonic = "STA" -> store(o, sta(m))
      [] mnemonic = "STX" -> store(o, stx(m))
      [] mnemonic = "STY" -> store(o, sty(m))
      [] mnemonic = "TAX" -> tax(m)
      [] mnemonic = "TAY" -> tay(m)
      [] mnemonic = "TXA" -> txa(m)
      [] mnemonic = "TYA" -> tya(m)
      [] mnemonic = "TSX" -> tsx(m)
      [] mnemonic = "TXS" -> txs(m)
      [] mnemonic = "INX" -> inx(m)
      [] mnemonic = "DEX" -> dex(m)
      [] mnemonic = "INY" -> iny(m)
      [] mnemonic = "DEY" -> dey(m)
      [] mnemonic = "ASL" /\ o.mode = "Accumulator" -> asl_acc(m)
      [] mnemonic = "ASL" /\ o.mode # "Accumulator" ->
            write_back(o, asl_operand(operand_read(o)))
      [] mnemonic = "LSR" /\ o.mode = "Accumulator" -> lsr_acc(m)
      [] mnemonic = "LSR" /\ o.mode # "Accumulator" ->
            write_back(o, lsr_operand(operand_read(o)))
      [] mnemonic = "ROL" /\ o.mode = "Accumulator" -> rol_acc(m)
      [] mnemonic = "ROL" /\ o.mode # "Accumulator" ->
            write_back(o, rol_operand(operand_read(o)))
      [] mnemonic = "ROR" /\ o.mode = "Accumulator" -> ror_acc(m)
      [] mnemonic = "ROR" /\ o.mode # "Accumulator" ->
            write_back(o, ror_operand(operand_read(o)))
      [] mnemonic = "INC" -> write_back(o, inc_operand(operand_read(o)))
      [] mnemonic = "DEC" -> write_back(o, dec_operand(operand_read(o)))
      [] mnemonic = "BCC" -> branch_penalty(bcc(m, o.value))
      [] mnemonic = "BCS" -> branch_penalty(bcs(m, o.value))
      [] mnemonic = "BEQ" -> branch_penalty(beq(m, o.value))
      [] mnemonic = "BNE" -> branch_penalty(bne(m, o.value))
      [] mnemonic = "BMI" -> branch_penalty(bmi(m, o.value))
      [] mnemonic = "BPL" -> branch_penalty(bpl(m, o.value))
      [] mnemonic = "BVC" -> branch_penalty(bvc(m, o.value))
      [] mnemonic = "BVS" -> branch_penalty(bvs(m, o.value))
      [] mnemonic \in {"NOP", "???"} -> m

\* the page-cross penalty: one cycle when the entry has the flag and indexing
\* crossed a page (branches get theirs from the branch helper)
page_penalty(o, opcode) ==
    IF opcode.page_boundary_cycle /\ o.crossed THEN 1 ELSE 0

\* dispatch on the entry's mnemonic, then add the entry's base cycles to the
\* penalties of the instruction: its cycle budget
execute_operand(o, opcode) ==
    [dispatch(o.cpu, opcode.mnemonic, o) EXCEPT
        !.cycles = opcode.cycles + page_penalty(o, opcode) + @]

\* fetch the operand under the entry's mode; no penalty accrued so far
execute_opcode(m, opcode) ==
    execute_operand(fetch_operand([m EXCEPT !.cycles = 0], opcode.mode), opcode)

\* advance PC past the opcode byte f.val and look its entry up
execute_fetched(f) ==
    execute_opcode([f.cpu EXCEPT !.pc = (@ + 1) % 65536], get_opcode(f.val))

execute_instruction(m) ==
    execute_fetched(bus_read([m EXCEPT !.log = << >>], m.pc))

(***************************************************************************)
(* Cpu::step and the bus tick (spec.md 5 and 6): one call of step is one   *)
(* cycle.  A call that finds the countdown at 0 runs the instruction at PC *)
(* and owes the rest of its cycles; any other call pays one cycle off.     *)
(* Every call ticks the bus once.  The log of the instruction in progress  *)
(* keeps its accesses and the ticks issued since it began.                 *)
(***************************************************************************)
tick(m) == [m EXCEPT !.log = Append(@, <<"tick", 0>>)]

\* pay one cycle of the countdown
countdown(m) == [m EXCEPT !.cycles = @ - 1]

\* step that pays no cycle on the call that runs the instruction
step_full_countdown(m) ==
    tick(IF m.cycles = 0 THEN execute_instruction(m) ELSE countdown(m))

\* step that ticks the bus only on the call that runs the instruction
step_tick_per_instruction(m) ==
    IF m.cycles = 0 THEN tick(countdown(execute_instruction(m))) ELSE countdown(m)

step(m) ==
    tick(countdown(IF m.cycles = 0 THEN execute_instruction(m) ELSE m))

(***************************************************************************)
(* main.rs display_cpu: read the opcode byte at PC, look its entry up in   *)
(* OPCODES and read the operand bytes the entry's length announces (the    *)
(* high byte first for three-byte instructions).  PC does not move.        *)
(***************************************************************************)
display_operands(f, bytes) ==
    CASE bytes = 1 -> f.cpu
      [] bytes = 2 -> bus_read(f.cpu, (f.cpu.pc + 1) % 65536).cpu
      [] bytes = 3 -> bus_read(bus_read(f.cpu, (f.cpu.pc + 2) % 65536).cpu,
                               (f.cpu.pc + 1) % 65536).cpu
      [] OTHER -> f.cpu

display_fetched(f) == display_operands(f, OPCODES[f.val].bytes)

display_cpu(m) == display_fetched(bus_read([m EXCEPT !.log = << >>], m.pc))

(***************************************************************************)
(* main.rs main: the reference driver.  Its command line is a sequence of  *)
(* strings (args[0] is the program name), the file it reads is a result    *)
(* of fs::read.  An image is kept like the memory: its length and the      *)
(* bytes that are not 0, by offset.                                        *)
(***************************************************************************)
\* where the driver loads the program
ROM_START == 32768

ROM_SIZE == 32768

DEFAULT_DELAY_MS == 150

DEFAULT_MAX_INSTRUCTIONS == 10000

\* the decimal strings str::parse reads, by value
Numerals == <<"0", "1", "2", "3", "4", "5">>

\* str::parse::<u32>() / ::<u64>(): Ok(value) or Err
parse(s) ==
    IF \E k \in 1 .. Len(Numerals) : Numerals[k] = s
    THEN [ok |-> TRUE, val |-> (CHOOSE k \in 1 .. Len(Numerals) : Numerals[k] = s) - 1]
    ELSE [ok |-> FALSE]

\* Result::unwrap_or
unwrap_or(r, default) == IF r.ok THEN r.val ELSE default

\* the option loop of main; i is the index of the next argument (args[i - 1]
\* of the source, whose indices start at 0)
RECURSIVE parse_options(_, _, _)
parse_options(args, i, opts) ==
    IF i > Len(args) THEN opts
    ELSE IF args[i] = "--delay" THEN
        parse_options(args, i + 2,
            IF i + 1 <= Len(args)
            THEN [opts EXCEPT !.delay_ms = unwrap_or(parse(args[i + 1]), DEFAULT_DELAY_MS)]
            ELSE opts)
    ELSE IF args[i] = "--max" THEN
        parse_options(args, i + 2,
            IF i + 1 <= Len(args)
            THEN [opts EXCEPT !.max_instructions =
                     unwrap_or(parse(args[i + 1]), DEFAULT_MAX_INSTRUCTIONS)]
            ELSE opts)
    ELSE parse_options(args, i + 1, opts)

\* the delay and the budget main runs with
options(args) ==
    parse_options(args, 3, [delay_ms |-> DEFAULT_DELAY_MS,
                            max_instructions |-> DEFAULT_MAX_INSTRUCTIONS])

\* SimpleBus::load(address, data) of an image
load_image(memory, address, data) ==
    [ad \in {address + k : k \in DOMAIN data.bytes} |-> data.bytes[ad - address]] @@ memory

\* let mut bus = SimpleBus::new(); bus.load(ROM_START, &rom_data);
\* let mut cpu = Cpu::new(bus); cpu.reset();
boot(rom_data) == reset(Cpu_new(load_image(SimpleBus_new, ROM_START, rom_data)))

\* a size check that lets a longer file through
wrong_size_short(data) == data.len < ROM_SIZE

\* if rom_data.len() != ROM_SIZE
wrong_size(data) == data.len # ROM_SIZE

\* while cpu.cycles > 0
reset_cycles_left(m) == m.cycles > 0

\* a loop test that lets one instruction more through
budget_left_inclusive(d) == d.instruction_count <= d.max_instructions

\* while instruction_count < max_instructions
budget_left(d) == d.instruction_count < d.max_instructions

\* if opcode_byte == 0x00 { break; }
stops(opcode_byte) == opcode_byte = 0

\* a count that adds the penalty cycle of every entry that has the flag
counted_cycles_flagged(opcode_byte) ==
    OPCODES[opcode_byte].cycles + (IF OPCODES[opcode_byte].page_boundary_cycle THEN 1 ELSE 0)

\* total_cycles += OPCODES[opcode_byte as usize].cycles as u64
counted_cycles(opcode_byte) == OPCODES[opcode_byte].cycles

(***************************************************************************)
(* The state machine.  cpu is the Cpu value; hist holds, for the last      *)
(* three calls, the call's name and the Cpu value it started from;         *)
(* written is every bus write of the run, in order, as <<address, value>>; *)
(* fuel bounds the number of calls of a run; driver holds the locals of    *)
(* main() when the run is a run of the reference driver (main.rs).         *)
(*                                                                         *)
(* The harness fills the bus before it hands it to Cpu::new (bus.load,     *)
(* bus.write).  What it put in a cell is fixed from then on, but the model *)
(* chooses it only when the CPU first reads the cell: an action that needs *)
(* a byte at an address is enabled when the cell holds that byte or was    *)
(* never set, and in the second case it sets it (Loaded / Load).           *)
(***************************************************************************)
MaxSteps == 2

\* operand and data bytes the harness may have loaded
DataBytes == {0, 127, 128}

\* status bytes the harness may have left on the stack page
StatusBytes == {0, 16, 203, 255}

\* address bytes: vectors and JSR targets
AddrLo == {0, 254}

AddrHi == {128, 255}

\* return-address bytes the harness may have left on the stack page
RetLo == {255}

RetHi == {1, 127}

\* the memory cell the shift and rotate instructions work on
ShiftCell == 512

\* offset bytes of the branches: forward, backward (128 and above), zero
Offsets == {0, 1, 5, 127, 128, 253, 255}

\* where the harness puts the branch: mid-page, three bytes below a page
\* end, near and at the top of the address space
BranchPCs == {32768, 33021, 65520, 65534}

\* flag settings of the harness (C, Z, V, N): none, C and V, Z and N, all
BranchFlags == {0, 65, 130, 195}

\* pointer bytes of JMP (ptr): the low byte 255 ends a page
PtrLo == {0, 52, 254, 255}

PtrHi == {2, 16, 255}

\* bytes of the jump target stored at the pointer
TargetLo == {0, 52}

TargetHi == {18, 144}

\* byte stored one past a pointer that ends a page
OtherBytes == {85}

\* the zero-page cell BIT tests, and the bytes the harness writes to it
BitCell == 16

BitOperands == {0, 1, 15, 63, 64, 128, 192, 255}

\* bytes a harness installs in the status register: 0xD5 and 0xDF have bit 5 clear
RegisterBytes == {0, 32, 52, 213, 223, 255}

\* addresses read_word is called with: the last two end a page, the last
\* one ends the address space
WordAddresses == {0, 4096, 4351, 65534, 65535}

\* the bytes of the word in memory
WordLo == {0, 52, 255}

WordHi == {0, 18, 255}

\* operand bytes of the arithmetic instructions
AluOperands == {0, 1, 127, 128, 255}

\* the opcode byte the table gives to a mnemonic under a mode
OpcodeOf(mnemonic, mode) ==
    TableAssignments[CHOOSE k \in 1 .. Len(TableAssignments) :
                        assigned(TableAssignments[k]).mnemonic = mnemonic
                        /\ assigned(TableAssignments[k]).mode = mode][1]

Loaded(memory, need) ==
    /\ \A i \in 1 .. Len(need) :
          need[i][1] \in DOMAIN memory => memory[need[i][1]] = need[i][2]
    /\ \A i, j \in 1 .. Len(need) :
          need[i][1] = need[j][1] => need[i][2] = need[j][2]

Load(memory, need) ==
    LET new == {need[i][1] : i \in 1 .. Len(need)} \ DOMAIN memory
    IN  [ad \in new |->
            need[CHOOSE i \in 1 .. Len(need) : need[i][1] = ad][2]] @@ memory

\* what the cell at address may hold: its content, or any byte of S
Choices(S, address) ==
    IF address \in DOMAIN cpu.memory THEN {cpu.memory[address]} ELSE S

\* the value of driver in a run the test harness drives: main() is not running
NoDriver == [pc |-> "harness"]

Record(name, m0) ==
    LET h == Append(hist, [op |-> name, pre |-> m0])
    IN  IF Len(h) > 3 THEN Tail(h) ELSE h

\* the writes of a finished call, with the values they left in memory
WritesOf(m) ==
    LET w == SelectSeq(m.log, LAMBDA e : e[1] = "write")
    IN  [k \in 1 .. Len(w) |-> <<w[k][2], m.memory[w[k][2]]>>]

\* the call returned m1, having started from m0
Returned(name, m0, m1) ==
    /\ cpu' = m1
    /\ hist' = Record(name, m0)
    /\ written' = written \o WritesOf(m1)
    /\ fuel' = fuel - 1
    /\ driver' = driver

\* one call of execute_instruction on m0
Call(name, m0) == Returned(name, m0, execute_instruction(m0))

\* one call of execute_instruction, the bytes of `need` being in memory
Step(name, need) ==
    /\ Loaded(cpu.memory, need)
    /\ Call(name, [cpu EXCEPT !.memory = Load(@, need)])

At(k) == (cpu.pc + k) % 65536

StackAt(k) == STACK_BASE + ((cpu.sp + k) % 256)

Op(mnemonic, mode) == <<cpu.pc, OpcodeOf(mnemonic, mode)>>

Reset ==
    /\ fuel > 0
    /\ \E lo \in Choices(AddrLo, RESET_VECTOR),
          hi \in Choices(AddrHi, RESET_VECTOR + 1) :
          LET need == << <<RESET_VECTOR, lo>>, <<RESET_VECTOR + 1, hi>> >>
              m0 == [cpu EXCEPT !.memory = Load(@, need)]
          IN  /\ cpu' = reset(m0)
              /\ hist' = Record("reset", m0)
    /\ written' = written
    /\ fuel' = fuel - 1
    /\ driver' = driver

PHA ==
    /\ fuel > 0
    /\ Step("PHA", <<Op("PHA", "Implied")>>)

PLA ==
    /\ fuel > 0
    /\ \E v \in Choices(DataBytes, StackAt(1)) :
           Step("PLA", <<Op("PLA", "Implied"), <<StackAt(1), v>> >>)

PHP ==
    /\ fuel > 0
    /\ Step("PHP", <<Op("PHP", "Implied")>>)

PLP ==
    /\ fuel > 0
    /\ \E v \in Choices(StatusBytes, StackAt(1)) :
           Step("PLP", <<Op("PLP", "Implied"), <<StackAt(1), v>> >>)

JSR ==
    /\ fuel > 0
    /\ \E lo \in Choices(AddrLo, At(1)), hi \in Choices(AddrHi, At(2)) :
           Step("JSR", <<Op("JSR", "Absolute"), <<At(1), lo>>, <<At(2), hi>> >>)

RTS ==
    /\ fuel > 0
    /\ \E lo \in Choices(RetLo, StackAt(1)), hi \in Choices(RetHi, StackAt(2)) :
           Step("RTS", <<Op("RTS", "Implied"),
                         <<StackAt(1), lo>>, <<StackAt(2), hi>> >>)

BRK ==
    /\ fuel > 0
    /\ \E lo \in Choices(AddrLo, IRQ_VECTOR), hi \in Choices(AddrHi, IRQ_VECTOR + 1) :
           Step("BRK", <<Op("BRK", "Implied"),
                         <<IRQ_VECTOR, lo>>, <<IRQ_VECTOR + 1, hi>> >>)

RTI ==
    /\ fuel > 0
    /\ \E p \in Choices(StatusBytes, StackAt(1)),
          lo \in Choices(RetLo, StackAt(2)), hi \in Choices(RetHi, StackAt(3)) :
           Step("RTI", <<Op("RTI", "Implied"), <<StackAt(1), p>>,
                         <<StackAt(2), lo>>, <<StackAt(3), hi>> >>)

CLC ==
    /\ fuel > 0
    /\ Step("CLC", <<Op("CLC", "Implied")>>)

SEC ==
    /\ fuel > 0
    /\ Step("SEC", <<Op("SEC", "Implied")>>)

CLI ==
    /\ fuel > 0
    /\ Step("CLI", <<Op("CLI", "Implied")>>)

SEI ==
    /\ fuel > 0
    /\ Step("SEI", <<Op("SEI", "Implied")>>)

CLD ==
    /\ fuel > 0
    /\ Step("CLD", <<Op("CLD", "Implied")>>)

SED ==
    /\ fuel > 0
    /\ Step("SED", <<Op("SED", "Implied")>>)

CLV ==
    /\ fuel > 0
    /\ Step("CLV", <<Op("CLV", "Implied")>>)

NOP ==
    /\ fuel > 0
    /\ Step("NOP", <<Op("NOP", "Implied")>>)

TXS ==
    /\ fuel > 0
    /\ Step("TXS", <<Op("TXS", "Implied")>>)

LDA ==
    /\ fuel > 0
    /\ \E v \in Choices(DataBytes, At(1)) :
           Step("LDA", <<Op("LDA", "Immediate"), <<At(1), v>> >>)

LDX ==
    /\ fuel > 0
    /\ \E v \in Choices(DataBytes, At(1)) :
           Step("LDX", <<Op("LDX", "Immediate"), <<At(1), v>> >>)

ADC ==
    /\ fuel > 0
    /\ \E v \in Choices(AluOperands, At(1)) :
           Step("ADC", <<Op("ADC", "Immediate"), <<At(1), v>> >>)

SBC ==
    /\ fuel > 0
    /\ \E v \in Choices(AluOperands, At(1)) :
           Step("SBC", <<Op("SBC", "Immediate"), <<At(1), v>> >>)

CMP ==
    /\ fuel > 0
    /\ \E v \in Choices(AluOperands, At(1)) :
           Step("CMP", <<Op("CMP", "Immediate"), <<At(1), v>> >>)

CPX ==
    /\ fuel > 0
    /\ \E v \in Choices(AluOperands, At(1)) :
           Step("CPX", <<Op("CPX", "Immediate"), <<At(1), v>> >>)

CPY ==
    /\ fuel > 0
    /\ \E v \in Choices(AluOperands, At(1)) :
           Step("CPY", <<Op("CPY", "Immediate"), <<At(1), v>> >>)

BCC ==
    /\ fuel > 0
    /\ \E v \in Choices(Offsets, At(1)) :
           Step("BCC", <<Op("BCC", "Relative"), <<At(1), v>> >>)

BCS ==
    /\ fuel > 0
    /\ \E v \in Choices(Offsets, At(1)) :
           Step("BCS", <<Op("BCS", "Relative"), <<At(1), v>> >>)

BEQ ==
    /\ fuel > 0
    /\ \E v \in Choices(Offsets, At(1)) :
           Step("BEQ", <<Op("BEQ", "Relative"), <<At(1), v>> >>)

BNE ==
    /\ fuel > 0
    /\ \E v \in Choices(Offsets, At(1)) :
           Step("BNE", <<Op("BNE", "Relative"), <<At(1), v>> >>)

BMI ==
    /\ fuel > 0
    /\ \E v \in Choices(Offsets, At(1)) :
           Step("BMI", <<Op("BMI", "Relative"), <<At(1), v>> >>)

BPL ==
    /\ fuel > 0
    /\ \E v \in Choices(Offsets, At(1)) :
           Step("BPL", <<Op("BPL", "Relative"), <<At(1), v>> >>)

BVC ==
    /\ fuel > 0
    /\ \E v \in Choices(Offsets, At(1)) :
           Step("BVC", <<Op("BVC", "Relative"), <<At(1), v>> >>)

BVS ==
    /\ fuel > 0
    /\ \E v \in Choices(Offsets, At(1)) :
           Step("BVS", <<Op("BVS", "Relative"), <<At(1), v>> >>)

\* JMP (ptr): the harness wrote the target's low byte at ptr, its high byte
\* at the start-of-page successor of ptr and, when ptr ends a page, another
\* byte at ptr + 1
JMP_I ==
    /\ fuel > 0
    /\ \E lo \in Choices(PtrLo, At(1)), hi \in Choices(PtrHi, At(2)) :
          LET ptr == hi * 256 + lo
              wrapped == hi * 256 + ((lo + 1) % 256)
              next == (ptr + 1) % 65536
          IN  \E tl \in Choices(TargetLo, ptr), th \in Choices(TargetHi, wrapped),
                 other \in Choices(OtherBytes, next) :
                 Step("JMP_I",
                      <<Op("JMP", "Indirect"), <<At(1), lo>>, <<At(2), hi>>,
                        <<ptr, tl>>, <<wrapped, th>>,
                        <<next, IF next = wrapped THEN th ELSE other>> >>)

\* the driver displays the instruction at PC, whatever byte is there
Display ==
    /\ fuel > 0
    /\ \E code \in Choices(Byte, cpu.pc) :
          /\ Loaded(cpu.memory, << <<cpu.pc, code>> >>)
          /\ Returned("display_cpu",
                      [cpu EXCEPT !.memory = Load(@, << <<cpu.pc, code>> >>)],
                      display_cpu([cpu EXCEPT !.memory = Load(@, << <<cpu.pc, code>> >>)]))

\* one call of execute_instruction on whatever the program counter points at;
\* a cell the harness did not write holds the 0 of SimpleBus::new
Execute ==
    /\ fuel > 0
    /\ Call("execute_instruction", cpu)

BIT_Z ==
    /\ fuel > 0
    /\ Step("BIT_Z", <<Op("BIT", "ZeroPage"), <<At(1), BitCell>> >>)

BIT_A ==
    /\ fuel > 0
    /\ Step("BIT_A", <<Op("BIT", "Absolute"), <<At(1), BitCell>>, <<At(2), 0>> >>)

TAX ==
    /\ fuel > 0
    /\ Step("TAX", <<Op("TAX", "Implied")>>)

TAY ==
    /\ fuel > 0
    /\ Step("TAY", <<Op("TAY", "Implied")>>)

TXA ==
    /\ fuel > 0
    /\ Step("TXA", <<Op("TXA", "Implied")>>)

TYA ==
    /\ fuel > 0
    /\ Step("TYA", <<Op("TYA", "Implied")>>)

TSX ==
    /\ fuel > 0
    /\ Step("TSX", <<Op("TSX", "Implied")>>)

\* a call of a StatusRegister method on cpu.status: the history keeps its
\* argument too; status is the register the call leaves
RecordMethod(name, arg) ==
    LET h == Append(hist, [op |-> name, pre |-> cpu, arg |-> arg])
    IN  IF Len(h) > 3 THEN Tail(h) ELSE h

Method(name, arg, status) ==
    /\ cpu' = [cpu EXCEPT !.status = status]
    /\ hist' = RecordMethod(name, arg)
    /\ written' = written
    /\ fuel' = fuel - 1
    /\ driver' = driver

\* a call of bus.read_word(address) that returned r: the history keeps the
\* address and the word returned
ReadWordReturned(address, m0, r) ==
    /\ cpu' = r.cpu
    /\ hist' = LET h == Append(hist, [op |-> "read_word", pre |-> m0,
                                      arg |-> address, ret |-> r.val])
               IN  IF Len(h) > 3 THEN Tail(h) ELSE h
    /\ written' = written \o WritesOf(r.cpu)
    /\ fuel' = fuel - 1
    /\ driver' = driver

ReadWordCall(address, m0) ==
    ReadWordReturned(address, m0, read_word([m0 EXCEPT !.log = << >>], address))

\* the harness wrote lo at address and hi at the next address (mod 65536)
\* and calls bus.read_word(address)
ReadWord ==
    /\ fuel > 0
    /\ \E address \in WordAddresses :
          \E lo \in Choices(WordLo, address),
             hi \in Choices(WordHi, (address + 1) % 65536) :
             /\ Loaded(cpu.memory, << <<address, lo>>, <<(address + 1) % 65536, hi>> >>)
             /\ ReadWordCall(address,
                     [cpu EXCEPT !.memory =
                         Load(@, << <<address, lo>>, <<(address + 1) % 65536, hi>> >>)])

\* status.from_byte(value)
FromByte ==
    /\ fuel > 0
    /\ \E value \in RegisterBytes :
          Method("from_byte", value, from_byte(cpu.status, value))

\* status.from_byte(status.to_byte())
RoundTrip ==
    /\ fuel > 0
    /\ Method("round_trip", to_byte(cpu.status),
              from_byte(cpu.status, to_byte(cpu.status)))

\* status.set(flag, value)
Set ==
    /\ fuel > 0
    /\ \E flag \in 0 .. 7, value \in BOOLEAN :
          Method("set", <<flag, value>>, set(cpu.status, flag, value))

ASL_A ==
    /\ fuel > 0
    /\ Step("ASL_A", <<Op("ASL", "Accumulator")>>)

ASL_M ==
    /\ fuel > 0
    /\ Step("ASL_M", <<Op("ASL", "Absolute"),
                        <<At(1), ShiftCell % 256>>, <<At(2), ShiftCell \div 256>> >>)

LSR_A ==
    /\ fuel > 0
    /\ Step("LSR_A", <<Op("LSR", "Accumulator")>>)

LSR_M ==
    /\ fuel > 0
    /\ Step("LSR_M", <<Op("LSR", "Absolute"),
                        <<At(1), ShiftCell % 256>>, <<At(2), ShiftCell \div 256>> >>)

ROL_A ==
    /\ fuel > 0
    /\ Step("ROL_A", <<Op("ROL", "Accumulator")>>)

ROL_M ==
    /\ fuel > 0
    /\ Step("ROL_M", <<Op("ROL", "Absolute"),
                        <<At(1), ShiftCell % 256>>, <<At(2), ShiftCell \div 256>> >>)

ROR_A ==
    /\ fuel > 0
    /\ Step("ROR_A", <<Op("ROR", "Accumulator")>>)

ROR_M ==
    /\ fuel > 0
    /\ Step("ROR_M", <<Op("ROR", "Absolute"),
                        <<At(1), ShiftCell % 256>>, <<At(2), ShiftCell \div 256>> >>)

\* the position of a step() call in its instruction (or in the countdown that
\* reset left), and the cycle count the harness expects the instruction to take
StepIndex(m0) ==
    IF m0.cycles > 0 /\ hist[Len(hist)].op = "step" THEN hist[Len(hist)].arg + 1 ELSE 1

StepTotal(m0) ==
    IF m0.cycles = 0 THEN execute_instruction(m0).cycles
    ELSE IF hist[Len(hist)].op = "step" THEN hist[Len(hist)].ret
    ELSE m0.cycles

RecordStep(m0) ==
    LET h == Append(hist, [op |-> "step", pre |-> m0,
                           arg |-> StepIndex(m0), ret |-> StepTotal(m0)])
    IN  IF Len(h) > 3 THEN Tail(h) ELSE h

\* a cycle-stepping host calls step() once
StepCycle ==
    /\ fuel > 0
    /\ cpu' = step(cpu)
    /\ hist' = RecordStep(cpu)
    /\ written' = written \o (IF cpu.cycles = 0 THEN WritesOf(step(cpu)) ELSE << >>)
    /\ fuel' = fuel - 1
    /\ driver' = driver

(***************************************************************************)
(* The reference driver, main.rs main, one action per stretch of it.       *)
(* driver.pc is where main stands; driver.stderr names the messages it     *)
(* wrote with eprintln!; driver.exit_code is -1 while it runs;             *)
(* driver.trace observes, for each instruction the loop executed, its      *)
(* opcode byte and the cycles the CPU accrued for it.                      *)
(***************************************************************************)
\* the value of cpu before Cpu::new
NoCpu == [constructed |-> FALSE]

\* eprintln!(..); process::exit(1)
failed(d, message) ==
    [d EXCEPT !.pc = "exit", !.exit_code = 1, !.stderr = Append(@, message)]

\* main.rs 109-151: the usage check and the option loop
ParseArgs ==
    /\ driver.pc = "args"
    /\ driver' = IF Len(driver.args) < 2 THEN failed(driver, "usage")
                 ELSE [driver EXCEPT !.pc = "read",
                                     !.delay_ms = options(driver.args).delay_ms,
                                     !.max_instructions = options(driver.args).max_instructions]
    /\ UNCHANGED <<cpu, hist, written, fuel>>

\* main.rs 154-160: fs::read(rom_path)
ReadRom ==
    /\ driver.pc = "read"
    /\ driver' = IF driver.file.ok THEN [driver EXCEPT !.pc = "size"]
                 ELSE failed(driver, "read")
    /\ UNCHANGED <<cpu, hist, written, fuel>>

\* main.rs 162-172: rom_data.len() != ROM_SIZE
CheckSize ==
    /\ driver.pc = "size"
    /\ driver' = IF wrong_size(driver.file.data) THEN failed(driver, "size")
                 ELSE [driver EXCEPT !.pc = "boot"]
    /\ UNCHANGED <<cpu, hist, written, fuel>>

\* main.rs 175-182: the bus, the CPU, reset, total_cycles = 0
Boot ==
    /\ driver.pc = "boot"
    /\ cpu' = boot(driver.file.data)
    /\ hist' = Record("reset", Cpu_new(load_image(SimpleBus_new, ROM_START, driver.file.data)))
    /\ driver' = [driver EXCEPT !.pc = "reset_cycles", !.total_cycles = 0]
    /\ UNCHANGED <<written, fuel>>

\* main.rs 183-186: one turn of the loop that consumes the reset cycles
ConsumeReset ==
    /\ driver.pc = "reset_cycles"
    /\ reset_cycles_left(cpu)
    /\ cpu' = step(cpu)
    /\ hist' = RecordStep(cpu)
    /\ written' = written \o (IF cpu.cycles = 0 THEN WritesOf(step(cpu)) ELSE << >>)
    /\ driver' = [driver EXCEPT !.total_cycles = @ + 1]
    /\ UNCHANGED fuel

\* main.rs 188-191: the reset cycles are consumed; instruction_count = 0
StartLoop ==
    /\ driver.pc = "reset_cycles"
    /\ ~reset_cycles_left(cpu)
    /\ driver' = [driver EXCEPT !.pc = "loop", !.instruction_count = 0]
    /\ UNCHANGED <<cpu, hist, written, fuel>>

\* main.rs 193-195: the loop test, display_cpu and the sleep
LoopDisplay ==
    /\ driver.pc = "loop"
    /\ \/ /\ budget_left(driver)
          /\ cpu' = display_cpu(cpu)
          /\ hist' = Record("display_cpu", cpu)
          /\ driver' = [driver EXCEPT !.pc = "fetch"]
       \/ /\ ~budget_left(driver)
          /\ driver' = [driver EXCEPT !.pc = "final"]
          /\ UNCHANGED <<cpu, hist>>
    /\ UNCHANGED <<written, fuel>>

\* main.rs 197-207: read the opcode byte; stop on 0x00, else execute and count
LoopExecute ==
    /\ driver.pc = "fetch"
    /\ \/ /\ stops(SimpleBus_read(cpu.memory, cpu.pc))
          /\ cpu' = bus_read([cpu EXCEPT !.log = << >>], cpu.pc).cpu
          /\ driver' = [driver EXCEPT !.pc = "final"]
          /\ UNCHANGED <<hist, written>>
       \/ /\ ~stops(SimpleBus_read(cpu.memory, cpu.pc))
          /\ cpu' = execute_instruction(cpu)
          /\ hist' = Record("execute_instruction", cpu)
          /\ written' = written \o WritesOf(execute_instruction(cpu))
          /\ driver' = [driver EXCEPT
                !.pc = "loop",
                !.instruction_count = @ + 1,
                !.total_cycles = @ + counted_cycles(SimpleBus_read(cpu.memory, cpu.pc)),
                !.trace = Append(@, <<SimpleBus_read(cpu.memory, cpu.pc),
                                      execute_instruction(cpu).cycles>>)]
    /\ UNCHANGED fuel

\* main.rs 210-216: the last display and the closing message; main returns
Finish ==
    /\ driver.pc = "final"
    /\ cpu' = display_cpu(cpu)
    /\ hist' = Record("display_cpu", cpu)
    /\ driver' = [driver EXCEPT !.pc = "exit", !.exit_code = 0]
    /\ UNCHANGED <<written, fuel>>

\* Cpu::new(bus) followed by reset(), as every harness of the repository does
Booted(n) ==
    /\ \E lo \in AddrLo, hi \in AddrHi :
          LET bus == Load(SimpleBus_new,
                          << <<RESET_VECTOR, lo>>, <<RESET_VECTOR + 1, hi>> >>)
          IN  /\ cpu = reset(Cpu_new(bus))
              /\ hist = <<[op |-> "reset", pre |-> Cpu_new(bus)]>>
    /\ written = << >>
    /\ fuel = n
    /\ driver = NoDriver

Init == Booted(MaxSteps)

Next ==
    \/ Reset
    \/ PHA
    \/ PLA
    \/ PHP
    \/ PLP
    \/ JSR
    \/ RTS
    \/ BRK
    \/ RTI
    \/ CLC
    \/ SEC
    \/ CLI
    \/ SEI
    \/ CLD
    \/ SED
    \/ CLV
    \/ NOP
    \/ TXS
    \/ LDA
    \/ LDX

Spec == Init /\ [][Next]_vars

(***************************************************************************)
(* Subroutine calls: runs of TXS, JSR and RTS from reset.                  *)
(***************************************************************************)
InitSub == Booted(MaxSteps + 1)

NextSub ==
    \/ TXS
    \/ JSR
    \/ RTS

SpecSub == InitSub /\ [][NextSub]_vars

(***************************************************************************)
(* Interrupts: runs of PLP, CLI, TXS, BRK and RTI from reset.              *)
(***************************************************************************)
InitInt == Booted(MaxSteps + 1)

NextInt ==
    \/ PLP
    \/ CLI
    \/ TXS
    \/ BRK
    \/ RTI

SpecInt == InitInt /\ [][NextInt]_vars

(***************************************************************************)
(* The status register on the stack: runs of PHP, PLP, SEC, CLI, SED and   *)
(* LDA from reset.                                                         *)
(***************************************************************************)
InitStatus == Booted(MaxSteps + 1)

NextStatus ==
    \/ PHP
    \/ PLP
    \/ SEC
    \/ CLI
    \/ SED
    \/ LDA

SpecStatus == InitStatus /\ [][NextStatus]_vars

(***************************************************************************)
(* The accumulator on the stack: runs of LDA, TXS, PHA and PLA from reset. *)
(***************************************************************************)
InitAcc == Booted(MaxSteps + 2)

NextAcc ==
    \/ LDA
    \/ TXS
    \/ PHA
    \/ PLA

SpecAcc == InitAcc /\ [][NextAcc]_vars

(***************************************************************************)
(* Addition and subtraction: the harness resets the CPU with the reset     *)
(* vector at ROM_START, sets A and the Carry and DecimalMode flags, and    *)
(* runs AluSteps instructions ADC # / SBC #.                               *)
(***************************************************************************)
AluSteps == 1

\* the bus of setup_cpu: the reset vector points at ROM_START
setup_bus ==
    (RESET_VECTOR :> (ROM_START % 256)) @@ (RESET_VECTOR + 1 :> (ROM_START \div 256))

InitAlu ==
    /\ \E a \in Byte, c \in BOOLEAN, d \in BOOLEAN :
          cpu = [reset(Cpu_new(setup_bus)) EXCEPT
                    !.a = a,
                    !.status = set(set(@, Carry, c), DecimalMode, d)]
    /\ hist = <<[op |-> "reset", pre |-> Cpu_new(setup_bus)]>>
    /\ written = << >>
    /\ fuel = AluSteps
    /\ driver = NoDriver

NextAlu ==
    \/ ADC
    \/ SBC

SpecAlu == InitAlu /\ [][NextAlu]_vars

(***************************************************************************)
(* Comparison: the harness resets the CPU, sets A, X and Y to three        *)
(* different bytes (A takes every byte, and so do X and Y) and the         *)
(* Overflow flag, and runs CmpSteps instructions CMP # / CPX # / CPY #.    *)
(***************************************************************************)
CmpSteps == 1

InitCmp ==
    /\ \E r \in Byte, v \in BOOLEAN :
          cpu = [reset(Cpu_new(setup_bus)) EXCEPT
                    !.a = r,
                    !.x = (r + 85) % 256,
                    !.y = (r + 170) % 256,
                    !.status = set(@, Overflow, v)]
    /\ hist = <<[op |-> "reset", pre |-> Cpu_new(setup_bus)]>>
    /\ written = << >>
    /\ fuel = CmpSteps
    /\ driver = NoDriver

NextCmp ==
    \/ CMP
    \/ CPX
    \/ CPY

SpecCmp == InitCmp /\ [][NextCmp]_vars

(***************************************************************************)
(* Branches: the harness resets the CPU, moves PC to one of BranchPCs,     *)
(* sets the C, Z, V and N flags and runs BranchSteps branch instructions.  *)
(***************************************************************************)
BranchSteps == 1

InitBranch ==
    /\ \E pc \in BranchPCs, p \in BranchFlags :
          cpu = [reset(Cpu_new(setup_bus)) EXCEPT
                    !.pc = pc,
                    !.status = from_byte(@, BitOr(to_byte(@), p))]
    /\ hist = <<[op |-> "reset", pre |-> Cpu_new(setup_bus)]>>
    /\ written = << >>
    /\ fuel = BranchSteps
    /\ driver = NoDriver

NextBranch ==
    \/ BCC
    \/ BCS
    \/ BEQ
    \/ BNE
    \/ BMI
    \/ BPL
    \/ BVC
    \/ BVS

SpecBranch == InitBranch /\ [][NextBranch]_vars

(***************************************************************************)
(* Indirect jumps: JmpSteps instructions JMP (ptr) from reset.              *)
(***************************************************************************)
JmpSteps == 1

InitJmp == Booted(JmpSteps)

NextJmp == JMP_I

SpecJmp == InitJmp /\ [][NextJmp]_vars

(***************************************************************************)
(* Decoding: the driver displays the instruction at PC after reset, for    *)
(* every opcode byte.                                                      *)
(***************************************************************************)
TableSteps == 1

InitTable == Booted(TableSteps)

NextTable == Display

SpecTable == InitTable /\ [][NextTable]_vars

(***************************************************************************)
(* BIT: the harness writes a byte to BitCell, resets the CPU, sets A and   *)
(* the C, Z, V, N flags and runs BitSteps instructions BIT.                *)
(***************************************************************************)
BitSteps == 1

InitBit ==
    /\ \E a \in Byte, value \in BitOperands, p \in BranchFlags :
          cpu = [reset(Cpu_new(SimpleBus_write(setup_bus, BitCell, value))) EXCEPT
                    !.a = a,
                    !.status = from_byte(@, BitOr(to_byte(@), p))]
    /\ hist = <<[op |-> "reset", pre |-> Cpu_new(setup_bus)]>>
    /\ written = << >>
    /\ fuel = BitSteps
    /\ driver = NoDriver

NextBit ==
    \/ BIT_Z
    \/ BIT_A

SpecBit == InitBit /\ [][NextBit]_vars

(***************************************************************************)
(* Transfers: the harness resets the CPU, sets A, X, Y and SP to four      *)
(* different bytes and the C, Z, V, N flags, and runs TransferSteps        *)
(* transfer instructions.                                                  *)
(***************************************************************************)
TransferSteps == 1

InitTransfer ==
    /\ \E r \in Byte, p \in BranchFlags :
          cpu = [reset(Cpu_new(setup_bus)) EXCEPT
                    !.a = r,
                    !.x = (r + 85) % 256,
                    !.y = (r + 170) % 256,
                    !.sp = (r + 51) % 256,
                    !.status = from_byte(@, BitOr(to_byte(@), p))]
    /\ hist = <<[op |-> "reset", pre |-> Cpu_new(setup_bus)]>>
    /\ written = << >>
    /\ fuel = TransferSteps
    /\ driver = NoDriver

NextTransfer ==
    \/ TAX
    \/ TAY
    \/ TXA
    \/ TYA
    \/ TSX
    \/ TXS

SpecTransfer == InitTransfer /\ [][NextTransfer]_vars

(***************************************************************************)
(* Flag instructions: the harness resets the CPU, installs any status      *)
(* byte and runs FlagSteps flag instructions.                              *)
(***************************************************************************)
FlagSteps == 2

InitFlags ==
    /\ \E p \in Byte :
          cpu = [reset(Cpu_new(setup_bus)) EXCEPT !.status = from_byte(@, p)]
    /\ hist = <<[op |-> "reset", pre |-> Cpu_new(setup_bus)]>>
    /\ written = << >>
    /\ fuel = FlagSteps
    /\ driver = NoDriver

NextFlags ==
    \/ CLC
    \/ SEC
    \/ CLI
    \/ SEI
    \/ CLD
    \/ SED
    \/ CLV

SpecFlags == InitFlags /\ [][NextFlags]_vars

(***************************************************************************)
(* The status register on its own: the harness calls from_byte with any    *)
(* byte on the register of a reset CPU and then RegisterSteps more of its  *)
(* methods.                                                                *)
(***************************************************************************)
RegisterSteps == 1

InitRegister ==
    /\ \E p \in Byte :
          /\ cpu = [reset(Cpu_new(setup_bus)) EXCEPT !.status = from_byte(@, p)]
          /\ hist = <<[op |-> "reset", pre |-> Cpu_new(setup_bus)],
                      [op |-> "from_byte", pre |-> reset(Cpu_new(setup_bus)), arg |-> p]>>
    /\ written = << >>
    /\ fuel = RegisterSteps
    /\ driver = NoDriver

NextRegister ==
    \/ FromByte
    \/ RoundTrip
    \/ Set

SpecRegister == InitRegister /\ [][NextRegister]_vars

(***************************************************************************)
(* Bus::read_word called by the harness on the bus of a reset CPU.         *)
(***************************************************************************)
WordSteps == 1

InitWord == Booted(WordSteps)

NextWord == ReadWord

SpecWord == InitWord /\ [][NextWord]_vars

(***************************************************************************)
(* Shifts and rotates: the harness writes a byte to ShiftCell and to A,    *)
(* sets the Carry and Negative flags, and runs the accumulator and the     *)
(* memory (absolute) forms on them.                                        *)
(***************************************************************************)
Shifting(steps) ==
    /\ \E x \in Byte, c \in BOOLEAN, n \in BOOLEAN :
          cpu = [reset(Cpu_new(SimpleBus_write(setup_bus, ShiftCell, x))) EXCEPT
                    !.a = x,
                    !.status = set(set(@, Carry, c), Negative, n)]
    /\ hist = <<[op |-> "reset", pre |-> Cpu_new(setup_bus)]>>
    /\ written = << >>
    /\ fuel = steps
    /\ driver = NoDriver

RotSteps == 2

InitRot == Shifting(RotSteps)

NextRot ==
    \/ ROL_A
    \/ ROL_M
    \/ ROR_A
    \/ ROR_M

SpecRot == InitRot /\ [][NextRot]_vars

LsrSteps == 1

InitLsr == Shifting(LsrSteps)

NextLsr ==
    \/ LSR_A
    \/ LSR_M

SpecLsr == InitLsr /\ [][NextLsr]_vars

\* both forms of the four shift and rotate instructions
ShiftSteps == 1

InitShift == Shifting(ShiftSteps)

NextShift ==
    \/ ASL_A
    \/ ASL_M
    \/ LSR_A
    \/ LSR_M
    \/ ROL_A
    \/ ROL_M
    \/ ROR_A
    \/ ROR_M

SpecShift == InitShift /\ [][NextShift]_vars

(***************************************************************************)
(* Filling the stack: the harness loads at ROM_START a straight-line       *)
(* program that sets SP (prefix), loads A with u, pushes it 256 times,     *)
(* loads A with v and pushes it ExtraPushes times more.                    *)
(***************************************************************************)
ExtraPushes == 1

WrapPrefixes ==
    {[bytes |-> << >>, n |-> 0],
     [bytes |-> <<OpcodeOf("TXS", "Implied")>>, n |-> 1],
     [bytes |-> <<OpcodeOf("LDX", "Immediate"), 128, OpcodeOf("TXS", "Implied")>>,
      n |-> 2]}

WrapProgram(prefix, u, v) ==
    prefix
    \o <<OpcodeOf("LDA", "Immediate"), u>>
    \o [i \in 1 .. 256 |-> OpcodeOf("PHA", "Implied")]
    \o <<OpcodeOf("LDA", "Immediate"), v>>
    \o [i \in 1 .. ExtraPushes |-> OpcodeOf("PHA", "Implied")]

\* SimpleBus::load(address, data) on a bus
SimpleBus_load(memory, address, data) ==
    [ad \in address .. address + Len(data) - 1 |-> data[ad - address + 1]] @@ memory

InitWrap ==
    \E prefix \in WrapPrefixes, u \in DataBytes, v \in DataBytes :
        LET vector == (RESET_VECTOR :> (ROM_START % 256))
                      @@ (RESET_VECTOR + 1 :> (ROM_START \div 256))
            bus == SimpleBus_load(vector, ROM_START, WrapProgram(prefix.bytes, u, v))
        IN  /\ cpu = reset(Cpu_new(bus))
            /\ hist = <<[op |-> "reset", pre |-> Cpu_new(bus)]>>
            /\ written = << >>
            /\ fuel = prefix.n + 2 + 256 + ExtraPushes
            /\ driver = NoDriver

NextWrap ==
    \/ PHA
    \/ LDA
    \/ LDX
    \/ TXS

SpecWrap == InitWrap /\ [][NextWrap]_vars

(***************************************************************************)
(* Any instruction: the harness loads a three-byte program at ROM_START,   *)
(* its first byte any opcode byte, resets the CPU, sets A, X, Y and the    *)
(* C, Z, V, N flags and runs AnySteps instructions.                        *)
(***************************************************************************)
AnySteps == 1

\* the operand bytes of the program
OperandLo == {16, 255}

OperandHi == {2, 255}

\* register values of the harness
RegisterA == {0, 129}

RegisterX == {0, 255}

RegisterY == {1, 255}

\* tests::setup_cpu(program)
setup_cpu(program) == reset(Cpu_new(SimpleBus_load(setup_bus, ROM_START, program)))

InitAny ==
    /\ \E code \in Byte, lo \in OperandLo, hi \in OperandHi,
          a \in RegisterA, x \in RegisterX, y \in RegisterY, p \in BranchFlags :
          cpu = [setup_cpu(<<code, lo, hi>>) EXCEPT
                    !.a = a, !.x = x, !.y = y,
                    !.status = from_byte(@, BitOr(to_byte(@), p))]
    /\ hist = <<[op |-> "reset", pre |-> Cpu_new(setup_bus)]>>
    /\ written = << >>
    /\ fuel = AnySteps
    /\ driver = NoDriver

NextAny == Execute

SpecAny == InitAny /\ [][NextAny]_vars

(***************************************************************************)
(* Cycle stepping: the harness loads a three-byte program at ROM_START,    *)
(* its first byte any opcode byte, resets the CPU, sets X, Y and the       *)
(* flags and calls step() CycleSteps times: through the countdown of reset *)
(* and through the instruction, into the one that follows.                 *)
(***************************************************************************)
CycleSteps == 15

\* the first operand byte: no page is crossed with 16, one is with 253
CycleLo == {16, 253}

CycleHi == 2

CycleFlags == {0, 195}

InitCycle ==
    /\ \E code \in Byte, lo \in CycleLo,
          x \in RegisterX, y \in RegisterY, p \in CycleFlags :
          cpu = [setup_cpu(<<code, lo, CycleHi>>) EXCEPT
                    !.x = x, !.y = y,
                    !.status = from_byte(@, BitOr(to_byte(@), p))]
    /\ hist = <<[op |-> "reset", pre |-> Cpu_new(setup_bus)]>>
    /\ written = << >>
    /\ fuel = CycleSteps
    /\ driver = NoDriver

NextCycle == StepCycle

SpecCycle == InitCycle /\ [][NextCycle]_vars

(***************************************************************************)
(* Runs of the reference driver: a command line, and the file it names.    *)
(***************************************************************************)
MaxInstructions == 3

\* command lines: no ROM path, a ROM path alone, a budget of 0 ..
\* MaxInstructions, an option without a value, values that are no numbers,
\* and --delay taking --max for its value
CommandLines ==
    {<<"emu">>,
     <<"emu", "rom.bin">>,
     <<"emu", "rom.bin", "--max">>,
     <<"emu", "rom.bin", "--max", "many">>,
     <<"emu", "rom.bin", "--delay", "soon", "--max", "1">>,
     <<"emu", "rom.bin", "--delay", "--max", "2">>}
    \cup {<<"emu", "rom.bin", "--max", Numerals[k + 1]>> : k \in 0 .. MaxInstructions}

\* a ROM_SIZE image: the program at its start and the reset vector at its end
Image(program, vector) ==
    [len |-> ROM_SIZE,
     bytes |-> [k \in 0 .. Len(program) - 1 |-> program[k + 1]]
               @@ (RESET_VECTOR - ROM_START :> vector % 256)
               @@ (RESET_VECTOR - ROM_START + 1 :> vector \div 256)]

\* programs that reach a 0x00 byte: at once; NOP and an illegal opcode; LDX
\* #$FF, LDA $80FF,X (a page cross); LDA #0, BEQ +1 (a taken branch); BNE
\* into the page before (a taken branch that crosses a page)
HaltingPrograms ==
    {<<0>>,
     <<234, 2, 0>>,
     <<162, 255, 189, 255, 128, 0>>,
     <<169, 0, 240, 1, 234, 0>>,
     <<208, 253>>}

\* programs that never reach one: JMP $8000; BNE to itself
LoopingPrograms == {<<76, 0, 128>>, <<208, 254>>}

HaltingFiles ==
    {[ok |-> TRUE, data |-> Image(p, ROM_START)] : p \in HaltingPrograms}
    \cup {[ok |-> TRUE, data |-> Image(<<234>>, 0)]}

LoopingFiles == {[ok |-> TRUE, data |-> Image(p, ROM_START)] : p \in LoopingPrograms}

\* what fs::read may return: Err, a file of another length, a ROM image
Files ==
    {[ok |-> FALSE]}
    \cup {[ok |-> TRUE, data |-> [Image(<<234, 0>>, ROM_START) EXCEPT !.len = n]] :
             n \in {0, ROM_SIZE - 1, ROM_SIZE + 1}}
    \cup HaltingFiles \cup LoopingFiles

\* a program that never stops runs under a budget of at most MaxInstructions
InitDriver ==
    /\ \E args \in CommandLines, file \in Files :
          /\ file \in LoopingFiles => options(args).max_instructions <= MaxInstructions
          /\ driver = [pc |-> "args", args |-> args, file |-> file,
                       delay_ms |-> DEFAULT_DELAY_MS,
                       max_instructions |-> DEFAULT_MAX_INSTRUCTIONS,
                       instruction_count |-> 0, total_cycles |-> 0,
                       stderr |-> << >>, exit_code |-> -1, trace |-> << >>]
    /\ cpu = NoCpu
    /\ hist = << >>
    /\ written = << >>
    /\ fuel = 0

NextDriver ==
    \/ ParseArgs
    \/ ReadRom
    \/ CheckSize
    \/ Boot
    \/ ConsumeReset
    \/ StartLoop
    \/ LoopDisplay
    \/ LoopExecute
    \/ Finish

SpecDriver == InitDriver /\ [][NextDriver]_vars

\* main runs on: nothing suspends it (the sleep of each turn ends).  A step
\* of main is possible exactly until it has exited, so this is weak fairness
\* of NextDriver.
SpecDriverFair ==
    SpecDriver /\ ([]<>(driver.pc = "exit") \/ []<><<NextDriver>>_vars)

\* every cell the last call read was set before the call, or by the call
ReadsLoaded ==
    \A i \in 1 .. Len(cpu.log) :
        cpu.log[i][1] = "read" =>
            \/ cpu.log[i][2] \in DOMAIN hist[Len(hist)].pre.memory
            \/ \E j \in 1 .. i - 1 : cpu.log[j] = <<"write", cpu.log[i][2]>>

(***************************************************************************)
(* Reading the history.                                                    *)
(***************************************************************************)
\* the last call and the Cpu value it started from
Last == hist[Len(hist)]

\* the call before the last one (when there was one)
Prev == hist[Len(hist) - 1]

TwoCalls == Len(hist) >= 2

\* the call two before the last one (when there was one)
Prev2 == hist[Len(hist) - 2]

ThreeCalls == Len(hist) >= 3

\* the operand byte of an instruction in immediate mode
Immediate(h) == SimpleBus_read(h.pre.memory, (h.pre.pc + 1) % 65536)

\* the carry flag of a status register as a number
CarryIn(status) == IF get(status, Carry) THEN 1 ELSE 0

\* the sign of a byte read as a two's complement number
Sign(v) == v >= 128

\* instructions that neither access the stack nor change SP
NonStack == {"CLC", "SEC", "CLI", "SEI", "CLD", "SED", "CLV", "NOP", "LDA", "LDX"}

\* the call named op that the last call pairs with: the one just before it,
\* or the one before a NonStack instruction in between
Paired(op) ==
    IF TwoCalls /\ Prev.op = op THEN {Prev}
    ELSE IF ThreeCalls /\ Prev2.op = op /\ Prev.op \in NonStack THEN {Prev2}
    ELSE {}

\* the little-endian word in memory at address
WordAt(memory, address) ==
    SimpleBus_read(memory, address)
    + 256 * SimpleBus_read(memory, (address + 1) % 65536)

C2_Original ==
    Last.op = "reset" =>
        /\ get(cpu.status, InterruptDisable) /\ get(cpu.status, Unused)
        /\ ~get(cpu.status, Carry) /\ ~get(cpu.status, Zero)
        /\ ~get(cpu.status, DecimalMode) /\ ~get(cpu.status, Break)
        /\ ~get(cpu.status, Overflow) /\ ~get(cpu.status, Negative)

(***************************************************************************)
(* C2 amended: after reset(), InterruptDisable, Unused and Break are 1     *)
(* and C, Z, D, V, N are 0.                                                *)
(***************************************************************************)
C2_ResetFlags ==
    Last.op = "reset" =>
        /\ get(cpu.status, InterruptDisable) /\ get(cpu.status, Unused)
        /\ get(cpu.status, Break)
        /\ ~get(cpu.status, Carry) /\ ~get(cpu.status, Zero)
        /\ ~get(cpu.status, DecimalMode)
        /\ ~get(cpu.status, Overflow) /\ ~get(cpu.status, Negative)

\* a reset of a CPU in which every flag had the opposite value
C2_Witness ==
    /\ Last.op = "reset"
    /\ ~get(Last.pre.status, InterruptDisable) /\ ~get(Last.pre.status, Break)
    /\ get(Last.pre.status, Carry) /\ get(Last.pre.status, Zero)
    /\ get(Last.pre.status, DecimalMode)
    /\ get(Last.pre.status, Overflow) /\ get(Last.pre.status, Negative)

(***************************************************************************)
(* C3: in every state reached from reset by executed instructions, bit 5   *)
(* (Unused) of P is 1 wherever it is observed: in to_byte(), in the byte   *)
(* PHP pushes and in the status byte BRK pushes.                           *)
(***************************************************************************)
C3_UnusedObserved ==
    /\ BitAnd(to_byte(cpu.status), 32) = 32
    /\ Last.op = "PHP" =>
          BitAnd(SimpleBus_read(cpu.memory, 256 + Last.pre.sp), 32) = 32
    /\ Last.op = "BRK" =>
          BitAnd(SimpleBus_read(cpu.memory, 256 + ((Last.pre.sp + 254) % 256)), 32) = 32

\* PHP or BRK pushing the status right after a pull installed a byte with bit 5 clear
C3_Witness ==
    /\ TwoCalls
    /\ Prev.op \in {"PLP", "RTI"}
    /\ BitAnd(SimpleBus_read(Prev.pre.memory, 256 + ((Prev.pre.sp + 1) % 256)), 32) = 0
    /\ Last.op \in {"PHP", "BRK"}

(***************************************************************************)
(* C4: SP stays in 0..255 and every stack access is in 0x0100..0x01FF: a   *)
(* byte push writes at 0x0100 + SP and then sets SP to (SP - 1) mod 256; a *)
(* byte pull sets SP to (SP + 1) mod 256 and then reads 0x0100 + SP.       *)
(* StackLog is the bus accesses a call must make after its opcode and      *)
(* operand fetches, given the SP it started from.                          *)
(***************************************************************************)
Pushes(sp0, n) == [k \in 1 .. n |-> <<"write", 256 + ((sp0 + 257 - k) % 256)>>]

Pulls(sp0, n) == [k \in 1 .. n |-> <<"read", 256 + ((sp0 + k) % 256)>>]

\* number of bytes a call pushes (negative: pulls)
StackDelta(op) ==
    CASE op \in {"PHA", "PHP"} -> 1
      [] op = "JSR" -> 2
      [] op = "BRK" -> 3
      [] op \in {"PLA", "PLP"} -> -1
      [] op = "RTS" -> -2
      [] op = "RTI" -> -3
      [] OTHER -> 0

\* the bus accesses of the last call that are not instruction fetches
DataLog ==
    LET nfetch == IF Last.op = "reset" THEN 0
                  ELSE get_opcode(SimpleBus_read(Last.pre.memory, Last.pre.pc)).bytes
    IN  SubSeq(cpu.log, nfetch + 1, Len(cpu.log))

ExpectedDataLog ==
    LET d == StackDelta(Last.op)
        sp0 == Last.pre.sp
    IN  CASE Last.op = "reset" -> <<<<"read", 65532>>, <<"read", 65533>>>>
          [] Last.op = "BRK" -> Pushes(sp0, 3) \o <<<<"read", 65534>>, <<"read", 65535>>>>
          [] d > 0 /\ Last.op # "BRK" -> Pushes(sp0, d)
          [] d < 0 -> Pulls(sp0, 0 - d)
          [] OTHER -> << >>

\* the accesses among them that push_byte and pull_byte made
StackLog ==
    CASE Last.op = "reset" -> << >>
      [] Last.op = "BRK" -> SubSeq(DataLog, 1, Len(DataLog) - 2)
      [] OTHER -> DataLog

C4_StackDiscipline ==
    /\ cpu.sp \in 0 .. 255
    /\ DataLog = ExpectedDataLog
    /\ \A i \in 1 .. Len(StackLog) : StackLog[i][2] \in 256 .. 511
    /\ Last.op \notin {"reset", "TXS"} =>
          cpu.sp = (Last.pre.sp + 256 - StackDelta(Last.op)) % 256

\* pulls that wrap from 0x01FF to 0x0100, then a push at SP = 0 that wraps back
C4_Witness ==
    /\ TwoCalls
    /\ Prev.op = "RTI" /\ Prev.pre.sp = 253
    /\ Last.op = "PHA" /\ Last.pre.sp = 0
    /\ cpu.sp = 255
    /\ <<"write", 256>> = cpu.log[Len(cpu.log)]

(***************************************************************************)
(* C5: the stack wraps silently.  After 256 consecutive byte pushes SP is  *)
(* back at the value it had before the first of them, and the push after   *)
(* them writes the address the first one wrote and replaces its value.     *)
(* (Under SpecWrap every bus write is a PHA push.)                         *)
(***************************************************************************)
C5_StackWraps ==
    LET n == Len(written)
    IN  /\ (Last.op = "PHA" /\ n >= 256) =>
              cpu.sp = written[n - 255][1] - 256
        /\ (Last.op = "PHA" /\ n > 256) =>
              /\ written[n][1] = written[n - 256][1]
              /\ written[n][2] = Last.pre.a
              /\ SimpleBus_read(cpu.memory, written[n - 256][1]) = Last.pre.a

\* the 257th push has replaced a different value, the one the 1st push wrote
C5_Witness ==
    /\ Last.op = "PHA"
    /\ Len(written) = 257
    /\ written[257][1] = written[1][1]
    /\ written[257][2] # written[1][2]
    /\ SimpleBus_read(cpu.memory, written[1][1]) = written[257][2]
    /\ SimpleBus_read(Last.pre.memory, written[1][1]) = written[1][2]

(***************************************************************************)
(* C6: JSR followed immediately by RTS leaves PC 3 bytes past the JSR      *)
(* opcode (mod 65536) and SP at its value before the JSR.                  *)
(***************************************************************************)
C6_JsrRts ==
    (TwoCalls /\ Prev.op = "JSR" /\ Last.op = "RTS") =>
        /\ cpu.pc = (Prev.pre.pc + 3) % 65536
        /\ cpu.sp = Prev.pre.sp

\* a JSR at 0xFFFF with SP = 0: the operand fetch wraps to 0x0000 and the
\* two pushes go to 0x0100 and then 0x01FF
C6_Witness ==
    /\ TwoCalls /\ Prev.op = "JSR" /\ Last.op = "RTS"
    /\ Prev.pre.pc = 65535
    /\ Prev.pre.sp = 0
    /\ cpu.pc = 2

(***************************************************************************)
(* C7: BRK at address p pushes the word p + 2 (high byte, then low byte),  *)
(* then P | 0x10, sets I and loads PC from the little-endian word at       *)
(* 0xFFFE/0xFFFF; SP ends 3 lower (mod 256) and no flag but I changes.     *)
(***************************************************************************)
C7_Brk ==
    Last.op = "BRK" =>
        LET p == Last.pre.pc
            sp0 == Last.pre.sp
            ret == (p + 2) % 65536
            n == Len(written)
        IN  /\ n >= 3
            /\ written[n - 2] = <<256 + sp0, ret \div 256>>
            /\ written[n - 1] = <<256 + ((sp0 + 255) % 256), ret % 256>>
            /\ written[n] = <<256 + ((sp0 + 254) % 256), BitOr(Last.pre.status, 16)>>
            /\ get(cpu.status, InterruptDisable)
            /\ \A f \in {Carry, Zero, DecimalMode, Break, Unused, Overflow, Negative} :
                  get(cpu.status, f) = get(Last.pre.status, f)
            /\ cpu.pc = WordAt(cpu.memory, 65534)
            /\ cpu.sp = (sp0 + 253) % 256

\* a BRK with I clear and SP = 1: the three pushes go to 0x0101, 0x0100, 0x01FF
C7_Witness ==
    /\ Last.op = "BRK"
    /\ ~get(Last.pre.status, InterruptDisable)
    /\ Last.pre.sp = 1
    /\ cpu.sp = 254

(***************************************************************************)
(* C8: BRK at p followed by RTI returns to PC = p + 2 (RTI adds no + 1),   *)
(* restores SP and restores N, V, D, Z and C to their values before BRK.   *)
(***************************************************************************)
C8_BrkRti ==
    (TwoCalls /\ Prev.op = "BRK" /\ Last.op = "RTI") =>
        /\ cpu.pc = (Prev.pre.pc + 2) % 65536
        /\ cpu.sp = Prev.pre.sp
        /\ \A f \in {Negative, Overflow, DecimalMode, Zero, Carry} :
              get(cpu.status, f) = get(Prev.pre.status, f)

\* BRK then RTI with N, V, D, Z and C all set before the BRK
C8_Witness ==
    /\ TwoCalls /\ Prev.op = "BRK" /\ Last.op = "RTI"
    /\ \A f \in {Negative, Overflow, DecimalMode, Zero, Carry} :
          get(Prev.pre.status, f)

(***************************************************************************)
(* C9 as stated: the B flag in the status register after RTI is unchanged  *)
(* from its value before the BRK.                                          *)
(***************************************************************************)
C9_Original ==
    (TwoCalls /\ Prev.op = "BRK" /\ Last.op = "RTI") =>
        get(cpu.status, Break) = get(Prev.pre.status, Break)

(***************************************************************************)
(* C9 amended: the B flag in the status register after RTI is 0, for       *)
(* either value of B before the BRK (RTI discards the pushed B bit and     *)
(* clears the one the register holds).                                     *)
(***************************************************************************)
C9_RtiClearsBreak ==
    (TwoCalls /\ Prev.op = "BRK" /\ Last.op = "RTI") =>
        ~get(cpu.status, Break)

\* BRK then RTI with B set before the BRK (as reset leaves it)
C9_Witness ==
    /\ TwoCalls /\ Prev.op = "BRK" /\ Last.op = "RTI"
    /\ get(Prev.pre.status, Break)

(***************************************************************************)
(* C10 as stated: after BRK followed by RTI the I flag is set, whatever    *)
(* its value before the BRK.                                               *)
(***************************************************************************)
C10_Original ==
    (TwoCalls /\ Prev.op = "BRK" /\ Last.op = "RTI") =>
        get(cpu.status, InterruptDisable)

(***************************************************************************)
(* C10 amended: after BRK followed by RTI the I flag has the value it had  *)
(* before the BRK (BRK pushes P before it sets I, and RTI installs the     *)
(* pushed I).                                                              *)
(***************************************************************************)
C10_RtiRestoresI ==
    (TwoCalls /\ Prev.op = "BRK" /\ Last.op = "RTI") =>
        get(cpu.status, InterruptDisable) = get(Prev.pre.status, InterruptDisable)

\* BRK then RTI with I clear before the BRK
C10_Witness ==
    /\ TwoCalls /\ Prev.op = "BRK" /\ Last.op = "RTI"
    /\ ~get(Prev.pre.status, InterruptDisable)
    /\ ~get(cpu.status, InterruptDisable)

(***************************************************************************)
(* C11 as stated: PHP followed later by PLP (stack balanced, flags changed *)
(* in between) restores P to its value at the PHP except that bit 4 is     *)
(* whatever it was just before the PLP and bit 5 is 1.                     *)
(***************************************************************************)
C11_Original ==
    Last.op = "PLP" =>
        \A h \in Paired("PHP") :
            to_byte(cpu.status) =
                BitOr(BitOr(BitAnd(to_byte(h.pre.status), 207),
                            BitAnd(to_byte(Last.pre.status), 16)), 32)

(***************************************************************************)
(* C11 amended: PHP followed later by PLP (stack balanced, flags changed   *)
(* in between) restores P to its value at the PHP except that bit 4 is 0   *)
(* and bit 5 is 1.                                                         *)
(***************************************************************************)
C11_PhpPlp ==
    Last.op = "PLP" =>
        \A h \in Paired("PHP") :
            to_byte(cpu.status) = BitOr(BitAnd(to_byte(h.pre.status), 207), 32)

\* PHP, a flag change, then PLP with B set just before the PLP
C11_Witness ==
    /\ Last.op = "PLP"
    /\ ThreeCalls /\ Prev2.op = "PHP" /\ Prev2 \in Paired("PHP")
    /\ Last.pre.status # Prev2.pre.status
    /\ get(Last.pre.status, Break)
    /\ BitAnd(to_byte(cpu.status), 207) = BitAnd(to_byte(Prev2.pre.status), 207)

(***************************************************************************)
(* C12: after PLP executed on a freshly reset CPU, Break is clear and      *)
(* Unused is set, whatever byte was pulled.                                *)
(***************************************************************************)
C12_PlpAfterReset ==
    (TwoCalls /\ Prev.op = "reset" /\ Last.op = "PLP") =>
        /\ ~get(cpu.status, Break)
        /\ get(cpu.status, Unused)

\* the pulled byte has bit 4 set and bit 5 clear
C12_Witness ==
    /\ TwoCalls /\ Prev.op = "reset" /\ Last.op = "PLP"
    /\ LET pulled == SimpleBus_read(Last.pre.memory, 256 + ((Last.pre.sp + 1) % 256))
       IN  BitAnd(pulled, 16) = 16 /\ BitAnd(pulled, 32) = 0

(***************************************************************************)
(* C13: PHP writes P | 0x10 at 0x0100 + SP, decrements SP by one and       *)
(* leaves the status register (its B bit included), A, X and Y unchanged.  *)
(***************************************************************************)
C13_Php ==
    Last.op = "PHP" =>
        /\ Len(written) >= 1
        /\ written[Len(written)] =
               <<256 + Last.pre.sp, BitOr(to_byte(Last.pre.status), 16)>>
        /\ cpu.sp = (Last.pre.sp + 255) % 256
        /\ cpu.status = Last.pre.status
        /\ cpu.a = Last.pre.a /\ cpu.x = Last.pre.x /\ cpu.y = Last.pre.y

\* a PHP with B clear in the register and A not 0
C13_Witness ==
    /\ Last.op = "PHP"
    /\ ~get(Last.pre.status, Break)
    /\ Last.pre.a # 0
    /\ BitAnd(SimpleBus_read(cpu.memory, 256 + Last.pre.sp), 16) = 16
    /\ ~get(cpu.status, Break)

(***************************************************************************)
(* C14: PHA followed by PLA, with instructions in between that leave the   *)
(* stack and SP alone, restores A to the pushed value and SP to its value  *)
(* before the PHA, and sets Z iff that value is 0 and N iff its bit 7 is   *)
(* set; PHA itself changes no flag.                                        *)
(***************************************************************************)
C14_PhaPla ==
    /\ Last.op = "PLA" =>
          \A h \in Paired("PHA") :
              /\ cpu.a = h.pre.a
              /\ cpu.sp = h.pre.sp
              /\ get(cpu.status, Zero) <=> (h.pre.a = 0)
              /\ get(cpu.status, Negative) <=> (BitAnd(h.pre.a, 128) = 128)
    /\ Last.op = "PHA" => cpu.status = Last.pre.status

\* PHA of 0x80, LDA #0 (A changed, Z set, N clear), then PLA
C14_Witness ==
    /\ Last.op = "PLA"
    /\ ThreeCalls /\ Prev2.op = "PHA" /\ Prev.op = "LDA"
    /\ Prev2.pre.a = 128
    /\ Last.pre.a = 0
    /\ get(Last.pre.status, Zero) /\ ~get(Last.pre.status, Negative)
    /\ cpu.a = 128

(***************************************************************************)
(* C15: ADC, for all A, M and carry-in C: new A = (A + M + C) mod 256,     *)
(* new C = (A + M + C) > 255, new V = (sign(A) = sign(M) and sign(A) #     *)
(* sign(new A)), Z = (new A = 0), N = bit 7 of new A.                      *)
(***************************************************************************)
C15_Adc ==
    Last.op = "ADC" =>
        LET A == Last.pre.a
            M == Immediate(Last)
            sum == A + M + CarryIn(Last.pre.status)
        IN  /\ cpu.a = sum % 256
            /\ get(cpu.status, Carry) <=> (sum > 255)
            /\ get(cpu.status, Overflow) <=>
                   (Sign(A) = Sign(M) /\ Sign(A) # Sign(cpu.a))
            /\ get(cpu.status, Zero) <=> (cpu.a = 0)
            /\ get(cpu.status, Negative) <=> Sign(cpu.a)

\* 0x7F + 0x01 with carry clear: 0x80, V and N set, C clear
C15_Witness ==
    /\ Last.op = "ADC"
    /\ Last.pre.a = 127 /\ Immediate(Last) = 1 /\ ~get(Last.pre.status, Carry)
    /\ cpu.a = 128
    /\ get(cpu.status, Overflow) /\ get(cpu.status, Negative)
    /\ ~get(cpu.status, Carry)

(***************************************************************************)
(* C16: SBC, for all A, M and carry-in C: new A = (A - M - (1 - C)) mod    *)
(* 256 and new C = 1 iff no borrow occurred, i.e. iff A >= M + (1 - C).    *)
(***************************************************************************)
C16_Sbc ==
    Last.op = "SBC" =>
        LET A == Last.pre.a
            M == Immediate(Last)
            borrow == 1 - CarryIn(Last.pre.status)
        IN  /\ cpu.a = (A + 512 - M - borrow) % 256
            /\ get(cpu.status, Carry) <=> (A >= M + borrow)

\* 0x00 - 0x01 with carry set: 0xFF and a borrow-out (C clear)
C16_Witness ==
    /\ Last.op = "SBC"
    /\ Last.pre.a = 0 /\ Immediate(Last) = 1 /\ get(Last.pre.status, Carry)
    /\ cpu.a = 255
    /\ ~get(cpu.status, Carry)

C18_Compare ==
    Last.op \in {"CMP", "CPX", "CPY"} =>
        LET r == CASE Last.op = "CMP" -> Last.pre.a
                   [] Last.op = "CPX" -> Last.pre.x
                   [] Last.op = "CPY" -> Last.pre.y
            M == Immediate(Last)
        IN  /\ get(cpu.status, Carry) <=> (r >= M)
            /\ get(cpu.status, Zero) <=> (r = M)
            /\ get(cpu.status, Negative) <=> Sign((r + 256 - M) % 256)
            /\ cpu.a = Last.pre.a /\ cpu.x = Last.pre.x /\ cpu.y = Last.pre.y
            /\ get(cpu.status, Overflow) = get(Last.pre.status, Overflow)

\* CPX with X = M = 0x80 and V set: C and Z set, N clear, V still set
C18_Witness ==
    /\ Last.op = "CPX"
    /\ Last.pre.x = 128 /\ Immediate(Last) = 128
    /\ Last.pre.a # 128 /\ Last.pre.y # 128
    /\ get(Last.pre.status, Overflow)
    /\ get(cpu.status, Carry) /\ get(cpu.status, Zero)
    /\ ~get(cpu.status, Negative) /\ get(cpu.status, Overflow)

(***************************************************************************)
(* C19: rotations through carry are inverses: for every byte x and         *)
(* carry-in c, ROL followed by ROR (taking the ROL's carry-out) gives x    *)
(* again with the carry equal to c, and likewise ROR followed by ROL; in   *)
(* the accumulator form and in the memory form.                            *)
(***************************************************************************)
C19_RotateInverse ==
    /\ (TwoCalls /\ <<Prev.op, Last.op>> \in {<<"ROL_A", "ROR_A">>, <<"ROR_A", "ROL_A">>}) =>
          /\ cpu.a = Prev.pre.a
          /\ get(cpu.status, Carry) = get(Prev.pre.status, Carry)
    /\ (TwoCalls /\ <<Prev.op, Last.op>> \in {<<"ROL_M", "ROR_M">>, <<"ROR_M", "ROL_M">>}) =>
          /\ SimpleBus_read(cpu.memory, ShiftCell)
                 = SimpleBus_read(Prev.pre.memory, ShiftCell)
          /\ get(cpu.status, Carry) = get(Prev.pre.status, Carry)

\* ROL then ROR of 0x81 in memory with carry-in 0: the ROL leaves 0x02 and
\* carry 1, the ROR brings back 0x81 and carry 0
C19_Witness ==
    /\ TwoCalls /\ Prev.op = "ROL_M" /\ Last.op = "ROR_M"
    /\ SimpleBus_read(Prev.pre.memory, ShiftCell) = 129
    /\ ~get(Prev.pre.status, Carry)
    /\ SimpleBus_read(Last.pre.memory, ShiftCell) = 2
    /\ get(Last.pre.status, Carry)
    /\ SimpleBus_read(cpu.memory, ShiftCell) = 129
    /\ ~get(cpu.status, Carry)

(***************************************************************************)
(* C20: LSR, in the accumulator and in the memory form, leaves N = 0 for   *)
(* every operand and every prior N, sets C to the operand's bit 0 and      *)
(* sets Z iff the shifted result is 0.                                     *)
(***************************************************************************)
C20_Lsr ==
    Last.op \in {"LSR_A", "LSR_M"} =>
        LET operand == IF Last.op = "LSR_A" THEN Last.pre.a
                       ELSE SimpleBus_read(Last.pre.memory, ShiftCell)
            shifted == IF Last.op = "LSR_A" THEN cpu.a
                       ELSE SimpleBus_read(cpu.memory, ShiftCell)
        IN  /\ shifted = operand \div 2
            /\ ~get(cpu.status, Negative)
            /\ get(cpu.status, Carry) <=> (operand % 2 = 1)
            /\ get(cpu.status, Zero) <=> (shifted = 0)

\* LSR of 0xFF in memory with N set and C clear before: 0x7F, N clear, C set
C20_Witness ==
    /\ Last.op = "LSR_M"
    /\ SimpleBus_read(Last.pre.memory, ShiftCell) = 255
    /\ get(Last.pre.status, Negative) /\ ~get(Last.pre.status, Carry)
    /\ SimpleBus_read(cpu.memory, ShiftCell) = 127
    /\ ~get(cpu.status, Negative) /\ get(cpu.status, Carry) /\ ~get(cpu.status, Zero)

\* the flag condition a branch mnemonic names
Condition(op, status) ==
    CASE op = "BCC" -> ~get(status, Carry)
      [] op = "BCS" -> get(status, Carry)
      [] op = "BEQ" -> get(status, Zero)
      [] op = "BNE" -> ~get(status, Zero)
      [] op = "BMI" -> get(status, Negative)
      [] op = "BPL" -> ~get(status, Negative)
      [] op = "BVC" -> ~get(status, Overflow)
      [] op = "BVS" -> get(status, Overflow)

Branches == {"BCC", "BCS", "BEQ", "BNE", "BMI", "BPL", "BVC", "BVS"}

\* a byte read as a two's complement number
SignExtend(v) == IF v >= 128 THEN v - 256 ELSE v

(***************************************************************************)
(* C21: a branch is taken iff its named flag condition holds; when taken,  *)
(* PC = (PC after the operand + sign-extended offset) mod 65536 and the    *)
(* instruction accrues 2 + 1 cycles, plus 1 iff the new PC is on another   *)
(* 256-byte page than the PC after the operand; when not taken, PC stays   *)
(* just past the operand and the instruction accrues 2 cycles.             *)
(***************************************************************************)
C21_Branch ==
    Last.op \in Branches =>
        LET after == (Last.pre.pc + 2) % 65536
            target == (after + SignExtend(Immediate(Last)) + 65536) % 65536
        IN  IF Condition(Last.op, Last.pre.status)
            THEN /\ cpu.pc = target
                 /\ cpu.cycles = 3 + (IF target \div 256 # after \div 256 THEN 1 ELSE 0)
            ELSE /\ cpu.pc = after
                 /\ cpu.cycles = 2

\* BEQ +5 at 0x80FD with Z set: PC = 0x8104 and 4 cycles
C21_Witness ==
    /\ Last.op = "BEQ"
    /\ Last.pre.pc = 33021
    /\ Immediate(Last) = 5
    /\ get(Last.pre.status, Zero)
    /\ cpu.pc = 33028
    /\ cpu.cycles = 4

\* the 16-bit operand of a three-byte instruction
Operand16(h) == WordAt(h.pre.memory, (h.pre.pc + 1) % 65536)

(***************************************************************************)
(* C22: JMP indirect has the NMOS page-wrap bug: for every pointer ptr,    *)
(* PC = bus[ptr] | (bus[(ptr & 0xFF00) | ((ptr + 1) & 0x00FF)] << 8), so   *)
(* JMP ($10FF) takes its high byte from 0x1000; when the low byte of ptr   *)
(* is not 0xFF this is the little-endian word at ptr.                      *)
(***************************************************************************)
C22_JmpIndirect ==
    Last.op = "JMP_I" =>
        LET ptr == Operand16(Last)
            page == (ptr \div 256) * 256
        IN  /\ cpu.pc = SimpleBus_read(Last.pre.memory, ptr)
                        + 256 * SimpleBus_read(Last.pre.memory, page + ((ptr + 1) % 256))
            /\ ptr % 256 # 255 => cpu.pc = WordAt(Last.pre.memory, ptr)

\* JMP ($10FF) with 0x34 at 0x10FF, 0x12 at 0x1000 and 0x55 at 0x1100
C22_Witness ==
    /\ Last.op = "JMP_I"
    /\ Operand16(Last) = 4351
    /\ SimpleBus_read(Last.pre.memory, 4351) = 52
    /\ SimpleBus_read(Last.pre.memory, 4096) = 18
    /\ SimpleBus_read(Last.pre.memory, 4352) = 85
    /\ cpu.pc = 4660

\* the opcode byte at PC when the last call started
OpcodeByte(h) == SimpleBus_read(h.pre.memory, h.pre.pc)

(***************************************************************************)
(* C23: for every opcode byte op in 0..255 the table entry has bytes in    *)
(* {1,2,3} and bytes = 1 + operand_bytes(mode), operand_bytes being 0 for  *)
(* Implied/Accumulator, 2 for Absolute, AbsoluteX, AbsoluteY and Indirect, *)
(* 1 for every other mode; the driver's display reads that many bytes.    *)
(***************************************************************************)
C23_TableBytes ==
    /\ \A op \in 0 .. 255 :
          /\ get_opcode(op).bytes \in {1, 2, 3}
          /\ get_opcode(op).bytes = 1 + operand_bytes(get_opcode(op).mode)
    /\ \A mode \in AddressingMode :
          operand_bytes(mode) =
              IF mode \in {"Implied", "Accumulator"} THEN 0
              ELSE IF mode \in {"Absolute", "AbsoluteX", "AbsoluteY", "Indirect"} THEN 2
              ELSE 1
    /\ Last.op = "display_cpu" =>
          Len(cpu.log) = 1 + operand_bytes(get_opcode(OpcodeByte(Last)).mode)

\* the driver decoded JMP (ptr), a three-byte instruction, and read three bytes
C23_Witness ==
    /\ Last.op = "display_cpu"
    /\ get_opcode(OpcodeByte(Last)).mode = "Indirect"
    /\ get_opcode(OpcodeByte(Last)).bytes = 3
    /\ Len(cpu.log) = 3

\* the opcode bytes that decode to an instruction
Legal == {op \in 0 .. 255 : get_opcode(op).mnemonic # "???"}

Completed(m) ==
    /\ m.a \in Byte /\ m.x \in Byte /\ m.y \in Byte /\ m.sp \in Byte
    /\ m.pc \in 0 .. 65535
    /\ to_byte(m.status) \in Byte
    /\ m.cycles \in 2 .. 8
    /\ \A ad \in DOMAIN m.memory : ad \in 0 .. 65535 /\ m.memory[ad] \in Byte

C26_Bit ==
    Last.op \in {"BIT_Z", "BIT_A"} =>
        LET value == SimpleBus_read(Last.pre.memory, BitCell)
        IN  /\ get(cpu.status, Zero) <=> (BitAnd(Last.pre.a, value) = 0)
            /\ get(cpu.status, Negative) <=> (value >= 128)
            /\ get(cpu.status, Overflow) <=> ((value \div 64) % 2 = 1)
            /\ cpu.a = Last.pre.a /\ cpu.x = Last.pre.x /\ cpu.y = Last.pre.y
            /\ cpu.sp = Last.pre.sp
            /\ cpu.memory = Last.pre.memory
            /\ WritesOf(cpu) = << >>
            /\ \A f \in {Carry, InterruptDisable, DecimalMode, Break} :
                  get(cpu.status, f) = get(Last.pre.status, f)

\* BIT of 0xC0 with A = 0x01 and N, V, Z clear before: Z, N and V get set
\* although A AND M is 0, and A stays 0x01
C26_Witness ==
    /\ Last.op = "BIT_Z"
    /\ Last.pre.a = 1
    /\ SimpleBus_read(Last.pre.memory, BitCell) = 192
    /\ BitAnd(to_byte(Last.pre.status), 194) = 0
    /\ BitAnd(to_byte(cpu.status), 194) = 194
    /\ cpu.a = 1

\* Z and N of a status register are those of the byte v
ZeroNegative(status, v) ==
    /\ get(status, Zero) <=> (v = 0)
    /\ get(status, Negative) <=> (v >= 128)

(***************************************************************************)
(* C27: TAX, TAY, TXA, TYA and TSX copy the source register to the         *)
(* destination, leave the source unchanged and set Z iff the copied value  *)
(* is 0 and N iff its bit 7 is set; TXS copies X to SP and leaves every    *)
(* bit of the status register unchanged, for every X.                      *)
(***************************************************************************)
C27_Transfer ==
    /\ Last.op = "TAX" =>
          cpu.x = Last.pre.a /\ cpu.a = Last.pre.a /\ ZeroNegative(cpu.status, Last.pre.a)
    /\ Last.op = "TAY" =>
          cpu.y = Last.pre.a /\ cpu.a = Last.pre.a /\ ZeroNegative(cpu.status, Last.pre.a)
    /\ Last.op = "TXA" =>
          cpu.a = Last.pre.x /\ cpu.x = Last.pre.x /\ ZeroNegative(cpu.status, Last.pre.x)
    /\ Last.op = "TYA" =>
          cpu.a = Last.pre.y /\ cpu.y = Last.pre.y /\ ZeroNegative(cpu.status, Last.pre.y)
    /\ Last.op = "TSX" =>
          cpu.x = Last.pre.sp /\ cpu.sp = Last.pre.sp /\ ZeroNegative(cpu.status, Last.pre.sp)
    /\ Last.op = "TXS" =>
          cpu.sp = Last.pre.x /\ cpu.x = Last.pre.x /\ cpu.status = Last.pre.status

\* TXS with X = 0 and Z clear: SP becomes 0 and Z stays clear
C27_Witness ==
    /\ Last.op = "TXS"
    /\ Last.pre.x = 0
    /\ Last.pre.sp # 0
    /\ ~get(Last.pre.status, Zero)
    /\ cpu.sp = 0
    /\ ~get(cpu.status, Zero)

\* the flag instructions: the bit each one names and the value it gives it
FlagOps == {"CLC", "SEC", "CLI", "SEI", "CLD", "SED", "CLV"}

NamedBit(op) ==
    CASE op \in {"CLC", "SEC"} -> 1
      [] op \in {"CLI", "SEI"} -> 4
      [] op \in {"CLD", "SED"} -> 8
      [] op = "CLV" -> 64

Sets(op) == op \in {"SEC", "SEI", "SED"}

\* the byte p with the bit of weight w set (v) or cleared (~v)
WithBit(p, w, v) == p - ((p \div w) % 2) * w + (IF v THEN w ELSE 0)

(***************************************************************************)
(* C28: each of CLC, SEC, CLI, SEI, CLD, SED and CLV sets or clears        *)
(* exactly its named status bit and leaves the other seven status bits,    *)
(* A, X, Y, SP and memory unchanged; applying the same flag instruction    *)
(* twice equals applying it once.                                          *)
(***************************************************************************)
C28_Flags ==
    /\ Last.op \in FlagOps =>
          /\ to_byte(cpu.status)
                 = WithBit(to_byte(Last.pre.status), NamedBit(Last.op), Sets(Last.op))
          /\ cpu.a = Last.pre.a /\ cpu.x = Last.pre.x /\ cpu.y = Last.pre.y
          /\ cpu.sp = Last.pre.sp
          /\ cpu.memory = Last.pre.memory
          /\ WritesOf(cpu) = << >>
    /\ (TwoCalls /\ Last.op \in FlagOps /\ Prev.op = Last.op) =>
          /\ cpu.status = Last.pre.status
          /\ cpu.a = Last.pre.a /\ cpu.x = Last.pre.x /\ cpu.y = Last.pre.y
          /\ cpu.sp = Last.pre.sp

\* SEI twice from status 0xFB: the first sets bit 2, the second leaves 0xFF
C28_Witness ==
    /\ TwoCalls /\ Prev.op = "SEI" /\ Last.op = "SEI"
    /\ to_byte(Prev.pre.status) = 251
    /\ to_byte(Last.pre.status) = 255
    /\ to_byte(cpu.status) = 255

\* bit k of the byte p
BitOf(p, k) == (p \div (2 ^ k)) % 2 = 1

C30_ReadWord ==
    Last.op = "read_word" =>
        /\ Last.ret = SimpleBus_read(Last.pre.memory, Last.arg)
                      + 256 * SimpleBus_read(Last.pre.memory, (Last.arg + 1) % 65536)
        /\ cpu.log = << <<"read", Last.arg>>, <<"read", (Last.arg + 1) % 65536>> >>
        /\ cpu.memory = Last.pre.memory

\* read_word(0xFFFF) with 0x34 at 0xFFFF and 0x12 at 0x0000 returns 0x1234
C30_Witness ==
    /\ Last.op = "read_word"
    /\ Last.arg = 65535
    /\ SimpleBus_read(Last.pre.memory, 65535) = 52
    /\ SimpleBus_read(Last.pre.memory, 0) = 18
    /\ Last.ret = 4660

\* m1 has the registers, the flags and the memory of m0
SameMachine(m1, m0) ==
    /\ m1.a = m0.a /\ m1.x = m0.x /\ m1.y = m0.y /\ m1.sp = m0.sp
    /\ m1.pc = m0.pc /\ m1.status = m0.status /\ m1.memory = m0.memory

\* the reads and writes of a log, in order
Accesses(log) == SelectSeq(log, LAMBDA e : e[1] # "tick")

(***************************************************************************)
(* C31: step() advances exactly one cycle: a call that finds the countdown *)
(* at 0 performs one whole instruction and loads the remaining cycles,     *)
(* every other call decrements the countdown by 1 and changes no register  *)
(* or memory; the number of step() calls spanning one instruction equals   *)
(* its cycle count, and after reset the countdown of 7 reaches 0 after     *)
(* exactly 7 calls.                                                        *)
(***************************************************************************)
C31_Step ==
    /\ CycleSteps - fuel <= RESET_CYCLES => cpu.cycles = RESET_CYCLES - (CycleSteps - fuel)
    /\ Last.op = "step" =>
          /\ Last.pre.cycles = 0 =>
                /\ SameMachine(cpu, execute_instruction(Last.pre))
                /\ cpu.cycles = execute_instruction(Last.pre).cycles - 1
                /\ Last.arg = 1
          /\ Last.pre.cycles > 0 =>
                /\ SameMachine(cpu, Last.pre)
                /\ cpu.cycles = Last.pre.cycles - 1
                /\ Accesses(cpu.log) = Accesses(Last.pre.log)
          /\ cpu.cycles = 0 => Last.arg = Last.ret

\* the seven calls of the reset countdown, then a three-byte instruction that
\* took five cycles, paid off by its fifth call
C31_Witness ==
    /\ Last.op = "step"
    /\ CycleSteps - fuel = RESET_CYCLES + 5
    /\ cpu.cycles = 0
    /\ Last.arg = 5
    /\ Last.ret = 5
    /\ cpu.pc = ROM_START + 3

\* the number of Bus::tick calls of a log
Ticks(log) == Len(SelectSeq(log, LAMBDA e : e[1] = "tick"))

\* the cycles an instruction takes above the base cycles of its table entry:
\* at most two for a branch, at most one for an entry with the page-cross
\* flag, none for any other
Penalties(opcode) ==
    IF ~opcode.page_boundary_cycle THEN {0}
    ELSE IF opcode.mode = "Relative" THEN {0, 1, 2}
    ELSE {0, 1}

RomLoaded == driver.pc \in {"reset_cycles", "loop", "fetch", "final"}

\* main has ended
Exited == driver.pc = "exit"

\* what holds at every moment of a run of the driver
DriverBounded ==
    /\ driver.instruction_count <= driver.max_instructions
    /\ Len(driver.trace) = driver.instruction_count
    /\ \A k \in 1 .. Len(driver.trace) : driver.trace[k][1] # 0
    /\ (Len(hist) > 0 /\ Last.op = "execute_instruction") => OpcodeByte(Last) # 0
    /\ (Exited /\ cpu # NoCpu) =>
          /\ driver.exit_code = 0
          /\ driver.stderr = << >>
          /\ \/ driver.instruction_count = driver.max_instructions
             \/ SimpleBus_read(cpu.memory, cpu.pc) = 0

(***************************************************************************)
(* C33: once the ROM is loaded the driver always terminates with exit code *)
(* 0: its loop executes at most max_instructions instructions and stops    *)
(* before executing when the opcode byte at PC is 0x00, so the driver      *)
(* never executes a BRK and instruction_count never exceeds                *)
(* max_instructions.                                                       *)
(***************************************************************************)
C33_DriverTerminates ==
    /\ []DriverBounded
    /\ RomLoaded ~> (Exited /\ driver.exit_code = 0)

\* the budget of two ran out on a program that never reaches a 0x00 byte
C33_Witness ==
    /\ Exited
    /\ driver.exit_code = 0
    /\ driver.max_instructions = 2
    /\ driver.instruction_count = 2
    /\ SimpleBus_read(cpu.memory, cpu.pc) # 0

\* some value of --delay or --max on the command line is not a number
RECURSIVE ValueNotNumeric(_, _)
ValueNotNumeric(args, i) ==
    IF i > Len(args) THEN FALSE
    ELSE IF args[i] \in {"--delay", "--max"} THEN
        \/ (i + 1 <= Len(args) /\ ~parse(args[i + 1]).ok)
        \/ ValueNotNumeric(args, i + 2)
    ELSE ValueNotNumeric(args, i + 1)

\* the failures of a run: no ROM path, fs::read failed, the file has another
\* length than ROM_SIZE
NoRomPath == Len(driver.args) < 2

Unreadable == ~NoRomPath /\ ~driver.file.ok

WrongSize == ~NoRomPath /\ driver.file.ok /\ driver.file.data.len # ROM_SIZE

\* main ended with a message on stderr, a non-zero exit code, no CPU
\* constructed and no instruction executed
ReportedFailure ==
    /\ driver.exit_code # 0
    /\ driver.stderr # << >>
    /\ cpu = NoCpu
    /\ hist = << >>
    /\ driver.instruction_count = 0

\* C34 as claimed: a value of --delay or --max that is not a number is one of
\* the failures
C34_Original ==
    (Exited /\ (Unreadable \/ WrongSize
                \/ (~NoRomPath /\ ValueNotNumeric(driver.args, 3)))) => ReportedFailure

(***************************************************************************)
(* C34: the driver-visible failures are a command line without a ROM path, *)
(* a ROM file that cannot be read and a ROM length other than 32768: each  *)
(* is reported on stderr and ends the driver with exit code 1 before any   *)
(* CPU is constructed or any instruction executes, and the driver exits    *)
(* non-zero for nothing else.  A missing or non-numeric value after        *)
(* --delay or --max is no failure: the default (150 ms, 10000              *)
(* instructions) stands in and the run goes on.                            *)
(***************************************************************************)
C34_DriverFailures ==
    /\ Exited =>
          /\ NoRomPath => (ReportedFailure /\ driver.stderr = <<"usage">>)
          /\ Unreadable => (ReportedFailure /\ driver.stderr = <<"read">>)
          /\ WrongSize => (ReportedFailure /\ driver.stderr = <<"size">>)
          /\ driver.exit_code \in {0, 1}
          /\ driver.exit_code = 1 <=> (NoRomPath \/ Unreadable \/ WrongSize)
    /\ ~Exited => (driver.exit_code = -1 /\ driver.stderr = << >>)
    /\ (driver.pc # "args" /\ ~NoRomPath) =>
          /\ driver.args = <<"emu", "rom.bin", "--max", "many">> =>
                driver.max_instructions = DEFAULT_MAX_INSTRUCTIONS
          /\ driver.args = <<"emu", "rom.bin", "--delay", "soon", "--max", "1">> =>
                (driver.delay_ms = DEFAULT_DELAY_MS /\ driver.max_instructions = 1)
          /\ driver.args = <<"emu", "rom.bin", "--max">> =>
                driver.max_instructions = DEFAULT_MAX_INSTRUCTIONS

\* a ROM one byte too long: reported, exit code 1, no CPU
C34_Witness ==
    /\ Exited
    /\ WrongSize
    /\ driver.file.data.len = ROM_SIZE + 1
    /\ driver.exit_code = 1
    /\ driver.stderr = <<"size">>
    /\ cpu = NoCpu

(***************************************************************************)
(* C35: JSR at address p with target t pushes the word p + 2 (mod 65536),  *)
(* the high byte at 0x0100 + SP and the low byte at 0x0100 + ((SP - 1) mod *)
(* 256), leaves SP two lower, sets PC = t and changes no flag; RTS pulls   *)
(* low then high and sets PC to the pulled word + 1 mod 65536.             *)
(***************************************************************************)
C35_JsrRts ==
    /\ Last.op = "JSR" =>
          /\ WritesOf(cpu) =
                << <<STACK_BASE + Last.pre.sp, ((Last.pre.pc + 2) % 65536) \div 256>>,
                   <<STACK_BASE + ((Last.pre.sp + 255) % 256), (Last.pre.pc + 2) % 256>> >>
          /\ cpu.sp = (Last.pre.sp + 254) % 256
          /\ cpu.pc = Operand16(Last)
          /\ cpu.status = Last.pre.status
          /\ cpu.a = Last.pre.a /\ cpu.x = Last.pre.x /\ cpu.y = Last.pre.y
    /\ Last.op = "RTS" =>
          /\ cpu.log = << <<"read", Last.pre.pc>>,
                          <<"read", STACK_BASE + ((Last.pre.sp + 1) % 256)>>,
                          <<"read", STACK_BASE + ((Last.pre.sp + 2) % 256)>> >>
          /\ cpu.pc = (SimpleBus_read(Last.pre.memory, STACK_BASE + ((Last.pre.sp + 1) % 256))
                       + 256 * SimpleBus_read(Last.pre.memory,
                                              STACK_BASE + ((Last.pre.sp + 2) % 256))
                       + 1) % 65536
          /\ cpu.sp = (Last.pre.sp + 2) % 256
          /\ cpu.status = Last.pre.status
          /\ cpu.memory = Last.pre.memory

\* a JSR at 0xFFFF with SP = 0: the word 0x0001 goes to 0x0100 (high) and
\* 0x01FF (low)
C35_Witness ==
    /\ Last.op = "JSR"
    /\ Last.pre.pc = 65535
    /\ Last.pre.sp = 0
    /\ cpu.sp = 254
    /\ SimpleBus_read(cpu.memory, 256) = 0
    /\ SimpleBus_read(cpu.memory, 511) = 1

(***************************************************************************)
(* C36: for every opcode byte op in 0..255 the code field of the table     *)
(* entry get_opcode(op) returns equals op: whatever byte the driver        *)
(* decodes at PC, the entry it finds carries that byte as its code.        *)
(***************************************************************************)
C36_CodeField ==
    /\ \A op \in Legal : get_opcode(op).code = op
    /\ Last.op = "display_cpu" => get_opcode(OpcodeByte(Last)).code = OpcodeByte(Last)

\* the accumulator form and the memory form of a shift or rotate mnemonic
AccForm(mnemonic, m) ==
    CASE mnemonic = "ASL" -> asl_acc(m)
      [] mnemonic = "LSR" -> lsr_acc(m)
      [] mnemonic = "ROL" -> rol_acc(m)
      [] mnemonic = "ROR" -> ror_acc(m)

MemForm(mnemonic, m, value) ==
    CASE mnemonic = "ASL" -> asl_mem(m, value)
      [] mnemonic = "LSR" -> lsr_mem(m, value)
      [] mnemonic = "ROL" -> rol_mem(m, value)
      [] mnemonic = "ROR" -> ror_mem(m, value)

\* the C, Z and N flags of a status byte
ShiftFlags(status) == <<get(status, Carry), get(status, Zero), get(status, Negative)>>

\* the mnemonic of a shift action
ShiftMnemonic(op) ==
    CASE op \in {"ASL_A", "ASL_M"} -> "ASL"
      [] op \in {"LSR_A", "LSR_M"} -> "LSR"
      [] op \in {"ROL_A", "ROL_M"} -> "ROL"
      [] op \in {"ROR_A", "ROR_M"} -> "ROR"

(***************************************************************************)
(* C37: for each of ASL, LSR, ROL and ROR, every operand x and carry-in,   *)
(* the accumulator form on A = x and the memory form on the value x give   *)
(* the same result byte and the same C, Z and N; the memory form leaves A  *)
(* unchanged and the accumulator form touches no memory.                   *)
(***************************************************************************)
C37_ShiftForms ==
    /\ Last.op \in {"ASL_A", "LSR_A", "ROL_A", "ROR_A"} =>
          /\ cpu.a = MemForm(ShiftMnemonic(Last.op), Last.pre, Last.pre.a).val
          /\ ShiftFlags(cpu.status) =
                ShiftFlags(MemForm(ShiftMnemonic(Last.op), Last.pre, Last.pre.a).cpu.status)
          /\ cpu.memory = Last.pre.memory
          /\ WritesOf(cpu) = << >>
    /\ Last.op \in {"ASL_M", "LSR_M", "ROL_M", "ROR_M"} =>
          /\ SimpleBus_read(cpu.memory, ShiftCell) =
                AccForm(ShiftMnemonic(Last.op),
                        [Last.pre EXCEPT !.a = SimpleBus_read(Last.pre.memory, ShiftCell)]).a
          /\ ShiftFlags(cpu.status) =
                ShiftFlags(AccForm(ShiftMnemonic(Last.op),
                        [Last.pre EXCEPT !.a = SimpleBus_read(Last.pre.memory, ShiftCell)]).status)
          /\ cpu.a = Last.pre.a
          /\ WritesOf(cpu) = << <<ShiftCell, SimpleBus_read(cpu.memory, ShiftCell)>> >>

\* ASL of 0x80 in memory: the cell becomes 0 with C and Z set while A stays 0x80
C37_Witness ==
    /\ Last.op = "ASL_M"
    /\ SimpleBus_read(Last.pre.memory, ShiftCell) = 128
    /\ SimpleBus_read(cpu.memory, ShiftCell) = 0
    /\ cpu.a = 128
    /\ get(cpu.status, Carry) /\ get(cpu.status, Zero) /\ ~get(cpu.status, Negative)

(***************************************************************************)
(* C38: for all A and M, SBC M executed with carry set leaves C, Z and N   *)
(* equal to what CMP M leaves from the same starting state, and leaves A   *)
(* equal to the difference (A - M) mod 256 that CMP discards.              *)
(***************************************************************************)
C38_SbcCmp ==
    (Last.op = "SBC" /\ get(Last.pre.status, Carry)) =>
        /\ ShiftFlags(cpu.status) = ShiftFlags(cmp(Last.pre, Immediate(Last)).status)
        /\ cpu.a = (Last.pre.a + 256 - Immediate(Last)) % 256
        /\ cmp(Last.pre, Immediate(Last)).a = Last.pre.a

\* 0x7F - 0x80 with carry set: A = 0xFF, and as after CMP C is clear, N set
C38_Witness ==
    /\ Last.op = "SBC"
    /\ get(Last.pre.status, Carry)
    /\ Last.pre.a = 127 /\ Immediate(Last) = 128
    /\ cpu.a = 255
    /\ ~get(cpu.status, Carry) /\ ~get(cpu.status, Zero) /\ get(cpu.status, Negative)

\* the mnemonics that store a register and those that read, modify and write
Stores == {"STA", "STX", "STY"}

ReadModifyWrites == {"ASL", "LSR", "ROL", "ROR", "INC", "DEC"}

\* what C39 says of one table entry
PageFlagRule(opcode) ==
    /\ opcode.page_boundary_cycle =>
          /\ opcode.mode \in {"AbsoluteX", "AbsoluteY", "IndirectY", "Relative"}
          /\ opcode.mnemonic \notin Stores \cup ReadModifyWrites
    /\ opcode.mode = "Relative" => (opcode.page_boundary_cycle /\ opcode.cycles = 2)

(***************************************************************************)
(* C39: in the opcode table the page_boundary_cycle flag is set only on    *)
(* entries whose mode is AbsoluteX, AbsoluteY, IndirectY or Relative, and  *)
(* on no store (STA/STX/STY) or read-modify-write (ASL/LSR/ROL/ROR/INC/    *)
(* DEC) entry; every entry with mode Relative has it set and has base      *)
(* cycles 2.  It holds of the entry of every byte the driver decodes.      *)
(***************************************************************************)
C39_PageFlag ==
    /\ \A op \in 0 .. 255 : PageFlagRule(get_opcode(op))
    /\ Last.op = "display_cpu" => PageFlagRule(get_opcode(OpcodeByte(Last)))

\* the driver decoded STA abs,X: an indexed mode, and no penalty flag
C39_Witness ==
    /\ Last.op = "display_cpu"
    /\ get_opcode(OpcodeByte(Last)).mnemonic = "STA"
    /\ get_opcode(OpcodeByte(Last)).mode = "AbsoluteX"
    /\ ~get_opcode(OpcodeByte(Last)).page_boundary_cycle
    /\ Len(cpu.log) = 3

\* over the instructions the driver executed: the sum of the base cycles of
\* their table entries, and the sum of the cycles the CPU accrued for them
RECURSIVE BaseCycles(_)
BaseCycles(trace) ==
    IF trace = << >> THEN 0
    ELSE get_opcode(Head(trace)[1]).cycles + BaseCycles(Tail(trace))

RECURSIVE AccruedCycles(_)
AccruedCycles(trace) ==
    IF trace = << >> THEN 0 ELSE Head(trace)[2] + AccruedCycles(Tail(trace))

\* the driver is in, or through, its execution loop
Looping == driver.pc \in {"loop", "fetch", "final"} \/ (Exited /\ cpu # NoCpu)

(***************************************************************************)
(* C40: the driver's total_cycles after k executed instructions equals the *)
(* 7 reset cycles plus the sum of the table's base cycles of those k       *)
(* opcodes; the taken-branch and page-cross penalties the CPU accrues      *)
(* never change it.                                                        *)
(***************************************************************************)
C40_TotalCycles ==
    /\ driver.pc = "reset_cycles" => driver.total_cycles = RESET_CYCLES - cpu.cycles
    /\ Looping =>
          /\ Len(driver.trace) = driver.instruction_count
          /\ driver.total_cycles = RESET_CYCLES + BaseCycles(driver.trace)
          /\ driver.total_cycles <= RESET_CYCLES + AccruedCycles(driver.trace)

\* one BNE into the page before: the CPU accrued 4 cycles, the driver counted 2
C40_Witness ==
    /\ Exited
    /\ driver.instruction_count = 1
    /\ driver.trace = << <<208, 4>> >>
    /\ driver.total_cycles = RESET_CYCLES + 2

====
